---- MODULE Spec2Model ----
(***************************************************************************)
(* Model of the currency-rate resolver (services/currencyService.js) and   *)
(* of the price update pipeline (services/priceService.js).                *)
(*                                                                         *)
(* Numbers are fixed point: a rate is an integer count of 1e-6 (so 0.054   *)
(* is 54000 and 1 is 1000000), a price an integer count of 1e-4.  Null     *)
(* stands for JavaScript null/undefined and NaN for a non-finite number.   *)
(* Time is counted in hours.  A currency code is a sequence of characters. *)
(***************************************************************************)
EXTENDS Integers, Sequences, FiniteSets, TLC

VARIABLES now, exchange_rates, call, last,
          price_ranges, current_prices, price_history, price_update_runs,
          daily, task, manual,
          config, rateTableCache, batch, calc, tableCall

vars == <<now, exchange_rates, call, last,
          price_ranges, current_prices, price_history, price_update_runs,
          daily, task, manual,
          config, rateTableCache, batch, calc, tableCall>>

rateVars == <<now, exchange_rates, call, last>>
priceVars == <<price_ranges, current_prices, price_history, price_update_runs,
               daily, task, manual>>
serviceVars == <<config, rateTableCache, batch, calc, tableCall>>

----------------------------------------------------------------------------
(* Bounds of the model *)

MaxTime == 4
MaxCalls == 2

----------------------------------------------------------------------------
(* Values *)

Null == 0 - 1
NaN == 0 - 2

IsFinite(x) == x >= 0
Truthy(x) == x > 0

RateScale == 1000000
FallbackRate == 54000
FallbackInversePrecision == 6
DefaultInversePrecision == 6
FreshHours == 4

ZAR == <<"Z", "A", "R">>
USD == <<"U", "S", "D">>
EUR == <<"E", "U", "R">>
usdPadded == <<" ", "u", "s", "d", " ">>
Blank == <<" ">>
Empty == <<>>

fallbackBaseFrom == ZAR
fallbackBaseTo == USD

----------------------------------------------------------------------------
(* The state the constructor leaves, and the idle values of the batch call  *)
(* and of the evaluation of a pure function                                 *)

(* a negative number read from the environment *)
Negative == 0 - 3

(* CURRENCY_FALLBACK_INVERSE_PRECISION: unset, "2", "0", "abc", "-3" *)
PrecisionSettings == {FallbackInversePrecision, 2, 0, NaN, Negative}

DefaultConfig == [fallbackInversePrecision |-> FallbackInversePrecision]
Configs == {[fallbackInversePrecision |-> p] : p \in PrecisionSettings}

(* rateTableTtlMs, in minutes *)
RateTableTtlMin == 15

(* new Map() *)
EmptyCache == {}

(* the targetCurrencies argument: an array of codes, or something else *)
TargetArray(codes) == [isArray |-> TRUE, codes |-> codes]
NotArray == [isArray |-> FALSE, codes |-> <<>>]

IdleBatch ==
    [pc |-> "idle", base |-> Empty, targets |-> NotArray, distinct |-> <<>>,
     looked |-> {}, missing |-> <<>>, result |-> {}, table |-> <<>>,
     tableFetches |-> 0, apiRequests |-> 0, unresolved |-> <<>>,
     pending |-> {}, storeAccess |-> 0]

NoCalc ==
    [fn |-> "none", a |-> Null, b |-> Null, den |-> 1, u |-> 0, out |-> Null,
     done |-> FALSE]

(* Date.now() in minutes, and the last call of fetchRateTable: when it was  *)
(* made, its argument, the cache it found, the response of the provider and *)
(* what it returned                                                         *)
NoTableCall ==
    [clock |-> 0, n |-> 0, at |-> 0, base |-> <<>>, before |-> {}, kind |-> "none",
     response |-> <<>>, rates |-> <<>>, requested |-> FALSE]

ServiceInitIdle ==
    /\ config = DefaultConfig
    /\ rateTableCache = EmptyCache
    /\ batch = IdleBatch
    /\ calc = NoCalc
    /\ tableCall = NoTableCall

----------------------------------------------------------------------------
(* String helpers: String(code || '').trim().toUpperCase() *)

ToUpperCase(c) ==
    CASE c = "u" -> "U"
      [] c = "s" -> "S"
      [] c = "d" -> "D"
      [] c = "z" -> "Z"
      [] c = "a" -> "A"
      [] c = "r" -> "R"
      [] c = "e" -> "E"
      [] OTHER -> c

RECURSIVE TrimStart(_)
TrimStart(s) ==
    IF s # <<>> /\ Head(s) = " " THEN TrimStart(Tail(s)) ELSE s

RECURSIVE TrimEnd(_)
TrimEnd(s) ==
    IF s # <<>> /\ s[Len(s)] = " " THEN TrimEnd(SubSeq(s, 1, Len(s) - 1)) ELSE s

Trim(s) == TrimEnd(TrimStart(s))

normaliseNoTrim(code) ==
    [i \in 1..Len(code) |-> ToUpperCase(code[i])]

normaliseCurrencyCode(code) ==
    LET t == Trim(code) IN [i \in 1..Len(t) |-> ToUpperCase(t[i])]

----------------------------------------------------------------------------
(* Arithmetic helpers *)

RECURSIVE Pow10(_)
Pow10(n) == IF n = 0 THEN 1 ELSE 10 * Pow10(n - 1)

(* Number(x.toFixed(0)) of a non-negative quotient: round half up *)
RoundDiv(a, b) == (2 * a + b) \div (2 * b)

(* Long division: the digits of num/den up to p decimals, as an integer     *)
(* count of 10^-p, rounded half up on the remainder ((1 / c).toFixed(p)).   *)
RECURSIVE LongDiv(_, _, _, _)
LongDiv(q, r, den, p) ==
    IF p = 0
    THEN IF 2 * r >= den THEN q + 1 ELSE q
    ELSE LongDiv(10 * q + ((10 * r) \div den), (10 * r) % den, den, p - 1)

InverseToFixed(c, p) == LongDiv(RateScale \div c, RateScale % c, c, p)

----------------------------------------------------------------------------
(* CurrencyService: pure parts *)

NullishCoalesceLeft(a, b) == a

(* a ?? b *)
NullishCoalesce(a, b) == IF a = Null THEN b ELSE a

(* a count of 10^-p as a count of 1e-6 *)
ToRateUnits(v, p) ==
    IF p <= 6 THEN v * Pow10(6 - p) ELSE RoundDiv(v, Pow10(p - 6))

fallbackPrecisionZero(p) == IF IsFinite(p) /\ p >= 0 THEN p ELSE 0

(* lines 137-139: the precision of the inverse; IsFinite(p) /\ p >= 0 is    *)
(* false for NaN and for Negative alike                                     *)
fallbackPrecision(p) == IF IsFinite(p) /\ p >= 0 THEN p ELSE DefaultInversePrecision

resolveFallbackRate(fromCurrency, toCurrency) ==
    LET from == normaliseCurrencyCode(fromCurrency)
        to == normaliseCurrencyCode(toCurrency)
        precision == fallbackPrecision(config.fallbackInversePrecision)
    IN  IF ~Truthy(FallbackRate) \/ ~IsFinite(FallbackRate) THEN Null
        ELSE IF from = Empty \/ to = Empty THEN Null
        ELSE IF from = to THEN RateScale
        ELSE IF from = fallbackBaseFrom /\ to = fallbackBaseTo THEN FallbackRate
        ELSE IF from = fallbackBaseTo /\ to = fallbackBaseFrom
             THEN ToRateUnits(InverseToFixed(FallbackRate, precision), precision)
        ELSE Null

(* .eq(from).eq(to).order(recorded_at desc).limit(1): <<>> or <<row>>.      *)
(* Rows are appended in time order, so the latest is the last in the log.   *)
MostRecent(rows, from, to) ==
    LET idx == {i \in 1..Len(rows) :
                    rows[i].from_currency = from /\ rows[i].to_currency = to}
    IN  IF idx = {} THEN <<>>
        ELSE <<rows[CHOOSE i \in idx : \A j \in idx : j <= i]>>

StoreOutcomes == {"ok", "error", "throw"}

getCachedExchangeRateInverted(rows, fromCurrency, toCurrency, outcome, t) ==
    LET data == MostRecent(rows, normaliseCurrencyCode(fromCurrency),
                           normaliseCurrencyCode(toCurrency))
    IN  IF outcome # "ok" THEN Null
        ELSE IF data = <<>> THEN Null
        ELSE IF t - data[1].recorded_at > FreshHours THEN data[1].rate
        ELSE Null

getCachedExchangeRateInclusive(rows, fromCurrency, toCurrency, outcome, t) ==
    LET data == MostRecent(rows, normaliseCurrencyCode(fromCurrency),
                           normaliseCurrencyCode(toCurrency))
    IN  IF outcome # "ok" THEN Null
        ELSE IF data = <<>> THEN Null
        ELSE IF t - data[1].recorded_at <= FreshHours THEN data[1].rate
        ELSE Null

getCachedExchangeRateApiOnly(rows, fromCurrency, toCurrency, outcome, t) ==
    LET data == MostRecent(rows, normaliseCurrencyCode(fromCurrency),
                           normaliseCurrencyCode(toCurrency))
    IN  IF outcome # "ok" THEN Null
        ELSE IF data = <<>> THEN Null
        ELSE IF data[1].source = "api" /\ t - data[1].recorded_at < FreshHours
             THEN data[1].rate
        ELSE Null

getCachedExchangeRate(rows, fromCurrency, toCurrency, outcome, t) ==
    LET data == MostRecent(rows, normaliseCurrencyCode(fromCurrency),
                           normaliseCurrencyCode(toCurrency))
    IN  IF outcome # "ok" THEN Null
        ELSE IF data = <<>> THEN Null
        ELSE IF t - data[1].recorded_at < FreshHours THEN data[1].rate
        ELSE Null

(* The responses of the rate provider: a table with a rate for the target   *)
(* (0 stands for a falsy entry), a table without it, an error, a timeout.   *)
(* call.apiKind holds the response while fetchExchangeRateFromAPI has just  *)
(* returned.                                                                *)
ApiRate == 55000
ApiResponses ==
    {[kind |-> "ok", rate |-> ApiRate], [kind |-> "ok", rate |-> 0],
     [kind |-> "empty", rate |-> Null], [kind |-> "error", rate |-> Null],
     [kind |-> "timeout", rate |-> Null]}

fetchExchangeRateFromAPIUnchecked(response) ==
    IF response.kind = "ok" THEN response.rate ELSE Null

fetchExchangeRateFromAPI(response) ==
    IF response.kind = "ok" /\ Truthy(response.rate) THEN response.rate ELSE Null

saveExchangeRateDropped(rows, fromCurrency, toCurrency, rate, source, outcome, t) ==
    rows

saveExchangeRateOverwriting(rows, fromCurrency, toCurrency, rate, source, outcome, t) ==
    LET row == [from_currency |-> normaliseCurrencyCode(fromCurrency),
                to_currency |-> normaliseCurrencyCode(toCurrency),
                rate |-> rate, recorded_at |-> t, source |-> source]
    IN  IF outcome # "ok" THEN rows
        ELSE IF rows = <<>> THEN <<row>>
        ELSE [rows EXCEPT ![Len(rows)] = row]

saveExchangeRateTwice(rows, fromCurrency, toCurrency, rate, source, outcome, t) ==
    LET row == [from_currency |-> normaliseCurrencyCode(fromCurrency),
                to_currency |-> normaliseCurrencyCode(toCurrency),
                rate |-> rate, recorded_at |-> t, source |-> source]
    IN  IF outcome = "ok" THEN Append(Append(rows, row), row) ELSE rows

(* saveExchangeRate: the log after the insert; an error is swallowed *)
saveExchangeRate(rows, fromCurrency, toCurrency, rate, source, outcome, t) ==
    IF outcome = "ok"
    THEN Append(rows, [from_currency |-> normaliseCurrencyCode(fromCurrency),
                       to_currency |-> normaliseCurrencyCode(toCurrency),
                       rate |-> rate, recorded_at |-> t, source |-> source])
    ELSE rows

----------------------------------------------------------------------------
(* CurrencyService.getCurrencyRate, one action per await *)

IdleCall(n) ==
    [pc |-> "idle", caller |-> "none", fromRaw |-> Empty, toRaw |-> Empty,
     startedAt |-> 0, readOutcome |-> "none",
     readRow |-> <<>>, readAt |-> 0, apiRate |-> Null, staleFound |-> FALSE,
     fallbackResolved |-> Null, result |-> Null, tier |-> "none",
     trace |-> <<>>, insertedAt |-> Null, apiKind |-> "none", n |-> n]

CallFrom == normaliseCurrencyCode(call.fromRaw)
CallTo == normaliseCurrencyCode(call.toRaw)

(* an exception raised inside the try block *)
Raise(c) == [c EXCEPT !.pc = "thrown"]

CatchAndSave(c) ==
    [c EXCEPT !.pc = "done", !.tier = "catch",
              !.trace = Append(@, "insert_fallback"),
              !.result = NullishCoalesce(resolveFallbackRate(c.fromRaw, c.toRaw),
                                         FallbackRate)]

(* the catch block of getCurrencyRate *)
CatchResult(c) ==
    [c EXCEPT !.pc = "done", !.tier = "catch",
              !.result = NullishCoalesce(resolveFallbackRate(c.fromRaw, c.toRaw),
                                         FallbackRate)]

NoCatch(c) == c

(* try { ... } catch (error) { ... return fallbackResolved } *)
getCurrencyRateCatch(c) == IF c.pc = "thrown" THEN CatchResult(c) ELSE c

(* from the entry of getCurrencyRate to its first await *)
BeginCall(caller, fromCurrency, toCurrency) ==
    LET from == normaliseCurrencyCode(fromCurrency)
        to == normaliseCurrencyCode(toCurrency)
        c == [IdleCall(call.n + 1) EXCEPT !.caller = caller,
                                          !.fromRaw = fromCurrency,
                                          !.toRaw = toCurrency,
                                          !.startedAt = now]
    IN  getCurrencyRateCatch(
            IF from = Empty \/ to = Empty THEN Raise(c)
            ELSE IF from = to
                 THEN [c EXCEPT !.pc = "done", !.tier = "identity",
                                !.result = RateScale]
            ELSE [c EXCEPT !.pc = "cache"])

CallPairs ==
    {<<ZAR, USD>>, <<USD, ZAR>>, <<ZAR, usdPadded>>, <<usdPadded, USD>>,
     <<USD, USD>>, <<EUR, USD>>, <<Empty, USD>>, <<ZAR, Blank>>}

CallStart ==
    /\ call.pc = "idle"
    /\ call.n < MaxCalls
    /\ \E p \in CallPairs : call' = BeginCall("client", p[1], p[2])
    /\ UNCHANGED <<now, exchange_rates, last>>
    /\ UNCHANGED priceVars
    /\ UNCHANGED serviceVars

CacheRead ==
    /\ call.pc = "cache"
    /\ \E outcome \in StoreOutcomes :
         LET cachedRate == getCachedExchangeRate(exchange_rates, call.fromRaw,
                                                 call.toRaw, outcome, now)
             c == [call EXCEPT !.trace = Append(@, "cache"),
                               !.readAt = now,
                               !.readOutcome = outcome,
                               !.readRow = IF outcome = "ok"
                                           THEN MostRecent(exchange_rates, CallFrom, CallTo)
                                           ELSE <<>>]
         IN  call' = IF Truthy(cachedRate)
                     THEN [c EXCEPT !.pc = "done", !.tier = "cache",
                                    !.result = cachedRate]
                     ELSE [c EXCEPT !.pc = "api"]
    /\ UNCHANGED <<now, exchange_rates, last>>
    /\ UNCHANGED priceVars
    /\ UNCHANGED serviceVars

ApiFetch ==
    /\ call.pc = "api"
    /\ \E response \in ApiResponses :
         LET apiRate == fetchExchangeRateFromAPI(response)
             c == [call EXCEPT !.trace = Append(@, "api"), !.apiRate = apiRate,
                               !.apiKind = response.kind]
         IN  call' = IF Truthy(apiRate)
                     THEN [c EXCEPT !.pc = "save_api"]
                     ELSE [c EXCEPT !.pc = "stale"]
    /\ UNCHANGED <<now, exchange_rates, last>>
    /\ UNCHANGED priceVars
    /\ UNCHANGED serviceVars

SaveApi ==
    /\ call.pc = "save_api"
    /\ \E outcome \in StoreOutcomes :
         /\ exchange_rates' = saveExchangeRate(exchange_rates, call.fromRaw, call.toRaw,
                                               call.apiRate, "api", outcome, now)
         /\ call' = [call EXCEPT !.pc = "done", !.tier = "api",
                                 !.apiKind = "none",
                                 !.result = call.apiRate,
                                 !.trace = Append(@, "insert_api"),
                                 !.insertedAt = IF outcome = "ok" THEN now ELSE Null]
    /\ UNCHANGED <<now, last>>
    /\ UNCHANGED priceVars
    /\ UNCHANGED serviceVars

(* the unbounded-age query and the synchronous code after it *)
StaleQuery ==
    /\ call.pc = "stale"
    /\ \E outcome \in StoreOutcomes, from \in {CallFrom}, to \in {CallTo} :
         LET data == IF outcome = "ok" THEN MostRecent(exchange_rates, from, to)
                     ELSE <<>>
             c == [call EXCEPT !.trace = Append(@, "stale"),
                               !.apiKind = "none",
                               !.staleFound = (data # <<>>)]
             fallbackResolved == NullishCoalesce(
                                     resolveFallbackRate(from, to),
                                     FallbackRate)
         IN  call' = getCurrencyRateCatch(
                     IF outcome = "throw" THEN Raise(c)
                     ELSE IF data # <<>>
                          THEN [c EXCEPT !.pc = "done", !.tier = "stale",
                                         !.result = data[1].rate]
                     ELSE IF ~Truthy(fallbackResolved) \/ ~IsFinite(fallbackResolved)
                          THEN Raise(c)
                     ELSE [c EXCEPT !.pc = "save_fallback",
                                    !.fallbackResolved = fallbackResolved])
    /\ UNCHANGED <<now, exchange_rates, last>>
    /\ UNCHANGED priceVars
    /\ UNCHANGED serviceVars

SaveFallback ==
    /\ call.pc = "save_fallback"
    /\ \E outcome \in StoreOutcomes :
         /\ exchange_rates' = saveExchangeRate(exchange_rates, call.fromRaw, call.toRaw,
                                               call.fallbackResolved, "fallback",
                                               outcome, now)
         /\ call' = [call EXCEPT !.pc = "done", !.tier = "fallback",
                                 !.result = call.fallbackResolved,
                                 !.trace = Append(@, "insert_fallback"),
                                 !.insertedAt = IF outcome = "ok" THEN now ELSE Null]
    /\ UNCHANGED <<now, last>>
    /\ UNCHANGED priceVars
    /\ UNCHANGED serviceVars

(* the value reaches the caller of GET /rate *)
CallReturn ==
    /\ call.pc \in {"done", "thrown"}
    /\ call.caller = "client"
    /\ last' = [from |-> CallFrom, to |-> CallTo, tier |-> call.tier,
                insertedAt |-> call.insertedAt, at |-> now]
    /\ call' = IdleCall(call.n)
    /\ UNCHANGED <<now, exchange_rates>>
    /\ UNCHANGED priceVars
    /\ UNCHANGED serviceVars

(* The clock advances between calls: a call lasts seconds, the clock counts *)
(* hours.                                                                   *)
Tick ==
    /\ now < MaxTime
    /\ call.pc = "idle"
    /\ now' = now + 1
    /\ UNCHANGED <<exchange_rates, call, last>>
    /\ UNCHANGED priceVars
    /\ UNCHANGED serviceVars

NoLast == [from |-> Empty, to |-> Empty, tier |-> "none", insertedAt |-> Null, at |-> 0]

----------------------------------------------------------------------------
(* CurrencyService.fetchRateTable and CurrencyService.getCurrencyRates *)

eurPadded == <<"e", "u", "r", " ">>

(* the keys a rate table is asked for *)
TableCodes == {EUR, ZAR, Empty}

(* response.data.rates: a number for a code, or Null where the code is      *)
(* absent or its entry is not a number                                      *)
TableFull == [c \in TableCodes |-> IF c = EUR THEN 920000
                                   ELSE IF c = ZAR THEN 18500000 ELSE Null]
TableNoZar == [c \in TableCodes |-> IF c = EUR THEN 920000 ELSE Null]
TableZeroEur == [c \in TableCodes |-> IF c = EUR THEN 0
                                      ELSE IF c = ZAR THEN 18500000 ELSE Null]

TableResponses ==
    {[kind |-> "ok", rates |-> <<TableFull>>],
     [kind |-> "ok", rates |-> <<TableNoZar>>],
     [kind |-> "ok", rates |-> <<TableZeroEur>>],
     [kind |-> "norates", rates |-> <<>>],
     [kind |-> "error", rates |-> <<>>],
     [kind |-> "timeout", rates |-> <<>>]}

(* Date.now() in minutes *)
NowMin == now * 60

CacheEntry(cache, key) == {e \in cache : e.key = key}

CacheSetAlone(cache, key, fetchedAt, rates) ==
    {[key |-> key, fetchedAt |-> fetchedAt, rates |-> rates]}

(* this.rateTableCache.set(cacheKey, {fetchedAt, rates}) *)
CacheSet(cache, key, fetchedAt, rates) ==
    {e \in cache : e.key # key}
        \cup {[key |-> key, fetchedAt |-> fetchedAt, rates |-> rates]}

(* fetchRateTable: the table or nothing, the cache afterwards, and whether  *)
(* a request was sent                                                       *)
fetchRateTable(cache, fromCurrency, response, t) ==
    LET cacheKey == normaliseCurrencyCode(fromCurrency)
        cached == CacheEntry(cache, cacheKey)
    IN  IF \E e \in cached : t - e.fetchedAt < RateTableTtlMin
        THEN [rates |-> <<(CHOOSE e \in cached : TRUE).rates>>, cache |-> cache,
              requested |-> FALSE]
        ELSE IF response.kind = "ok"
        THEN [rates |-> response.rates,
              cache |-> CacheSet(cache, cacheKey, t, response.rates[1]),
              requested |-> TRUE]
        ELSE [rates |-> <<>>, cache |-> cache, requested |-> TRUE]

(* targetCurrencies.filter(Boolean).map(trim, upper case) through new Set:  *)
(* the distinct codes in the order of their first appearance                *)
RECURSIVE DistinctTargets(_, _)
DistinctTargets(codes, seen) ==
    IF codes = <<>> THEN <<>>
    ELSE LET target == normaliseCurrencyCode(Head(codes))
         IN  IF Head(codes) = Empty \/ target \in seen
             THEN DistinctTargets(Tail(codes), seen)
             ELSE <<target>> \o DistinctTargets(Tail(codes), seen \cup {target})

Keys(result) == {r.target : r \in result}

(* result[target] = rate *)
SetResult(result, target, rate) ==
    {r \in result : r.target # target} \cup {[target |-> target, rate |-> rate]}

(* typeof rate === 'number' *)
IsNumber(rate) == rate # Null

TableHitsNone(missing, table) == {}

(* lines 283-293: the missing targets the table satisfies *)
TableHits(missing, table) ==
    IF table = <<>> THEN {}
    ELSE {[target |-> missing[i], rate |-> table[1][missing[i]]] :
             i \in {j \in 1..Len(missing) : IsNumber(table[1][missing[j]])}}

UnresolvedAll(missing, result) == missing

RECURSIVE Unresolved(_, _)
Unresolved(missing, result) ==
    IF missing = <<>> THEN <<>>
    ELSE IF Head(missing) \in Keys(result) THEN Unresolved(Tail(missing), result)
    ELSE <<Head(missing)>> \o Unresolved(Tail(missing), result)

BatchBases == {USD}

TargetLists ==
    {NotArray, TargetArray(<<>>), TargetArray(<<Empty>>), TargetArray(<<EUR>>),
     TargetArray(<<EUR, ZAR>>), TargetArray(<<eurPadded, EUR>>),
     TargetArray(<<Blank, EUR>>)}

(* the entry of getCurrencyRates up to the first await *)
BatchStart ==
    /\ batch.pc = "idle"
    /\ call.pc = "idle"
    /\ \E fromCurrency \in BatchBases, targetCurrencies \in TargetLists :
         LET b == [IdleBatch EXCEPT !.base = normaliseCurrencyCode(fromCurrency),
                                    !.targets = targetCurrencies]
             distinct == DistinctTargets(targetCurrencies.codes, {})
         IN  batch' = IF ~targetCurrencies.isArray \/ targetCurrencies.codes = <<>>
                      THEN [b EXCEPT !.pc = "returned"]
                      ELSE IF distinct = <<>>
                      THEN [b EXCEPT !.pc = "returned"]
                      ELSE [b EXCEPT !.pc = "lookups", !.distinct = distinct]
    /\ UNCHANGED <<config, rateTableCache, calc, tableCall>>
    /\ UNCHANGED rateVars
    /\ UNCHANGED priceVars

(* one of the parallel persisted-cache lookups comes back; the last one     *)
(* resolves the Promise.all                                                 *)
BatchCacheRead ==
    /\ batch.pc = "lookups"
    /\ \E i \in 1..Len(batch.distinct), outcome \in StoreOutcomes :
         LET target == batch.distinct[i]
             cachedRate == getCachedExchangeRate(exchange_rates, batch.base, target,
                                                 outcome, now)
             b == [batch EXCEPT
                      !.looked = @ \cup {target},
                      !.storeAccess = @ + 1,
                      !.result = IF Truthy(cachedRate)
                                 THEN SetResult(@, target, cachedRate) ELSE @,
                      !.missing = IF Truthy(cachedRate) THEN @ ELSE Append(@, target)]
         IN  /\ target \notin batch.looked
             /\ batch' = IF Cardinality(b.looked) < Len(b.distinct) THEN b
                          ELSE IF b.missing = <<>> THEN [b EXCEPT !.pc = "returned"]
                          ELSE [b EXCEPT !.pc = "table"]
    /\ UNCHANGED <<config, rateTableCache, calc, tableCall>>
    /\ UNCHANGED rateVars
    /\ UNCHANGED priceVars

(* fetchRateTable is back: the table fills what it can, each filled target  *)
(* starts an insert nobody waits for, and the rest goes to getCurrencyRate  *)
BatchFetchTable ==
    /\ batch.pc = "table"
    /\ \E response \in TableResponses :
         LET f == fetchRateTable(rateTableCache, batch.base, response, NowMin)
             hits == TableHits(batch.missing, f.rates)
             result == batch.result \cup hits
             unresolved == Unresolved(batch.missing, result)
         IN  /\ rateTableCache' = f.cache
             /\ batch' = [batch EXCEPT
                             !.table = f.rates,
                             !.tableFetches = @ + 1,
                             !.apiRequests = @ + (IF f.requested THEN 1 ELSE 0),
                             !.result = result,
                             !.pending = hits,
                             !.storeAccess = @ + Cardinality(hits),
                             !.unresolved = unresolved,
                             !.pc = IF unresolved = <<>> THEN "returned" ELSE "pairs"]
    /\ UNCHANGED <<config, calc, tableCall>>
    /\ UNCHANGED rateVars
    /\ UNCHANGED priceVars

(* getCurrencyRate(base, target) for a target still unresolved.  The chains *)
(* of the targets run in parallel in the code; they read and write rows of  *)
(* different pairs, so they are taken one after the other here.             *)
BatchPairStart ==
    /\ batch.pc = "pairs"
    /\ call.pc = "idle"
    /\ batch.unresolved # <<>>
    /\ call' = BeginCall("batch", batch.base, Head(batch.unresolved))
    /\ UNCHANGED <<now, exchange_rates, last>>
    /\ UNCHANGED priceVars
    /\ UNCHANGED serviceVars

BatchPairResolved ==
    /\ batch.pc = "pairs"
    /\ call.pc \in {"done", "thrown"}
    /\ call.caller = "batch"
    /\ batch' =
         IF call.pc = "thrown" THEN [batch EXCEPT !.pc = "thrown"]
         ELSE [batch EXCEPT
                  !.result = IF Truthy(call.result)
                             THEN SetResult(@, Head(batch.unresolved), call.result)
                             ELSE @,
                  !.unresolved = Tail(@),
                  !.pc = IF Tail(batch.unresolved) = <<>> THEN "returned" ELSE "pairs"]
    /\ call' = IdleCall(call.n)
    /\ UNCHANGED <<now, exchange_rates, last>>
    /\ UNCHANGED <<config, rateTableCache, calc, tableCall>>
    /\ UNCHANGED priceVars

(* an api_batch insert completes, possibly after the call has returned *)
BatchSaveLands ==
    /\ \E p \in batch.pending, outcome \in StoreOutcomes :
         /\ exchange_rates' = saveExchangeRate(exchange_rates, batch.base, p.target,
                                               p.rate, "api_batch", outcome, now)
         /\ batch' = [batch EXCEPT !.pending = @ \ {p}]
    /\ UNCHANGED <<now, call, last>>
    /\ UNCHANGED <<config, rateTableCache, calc, tableCall>>
    /\ UNCHANGED priceVars

(* a row younger than 4 hours for (USD, EUR), left by an earlier call *)
FreshEurRow ==
    [from_currency |-> USD, to_currency |-> EUR, rate |-> 910000,
     recorded_at |-> 0, source |-> "api"]

(* the table cache: empty, filled 5 minutes ago, filled 20 minutes ago *)
StoredCaches ==
    {EmptyCache,
     {[key |-> USD, fetchedAt |-> 0 - 5, rates |-> TableFull]},
     {[key |-> USD, fetchedAt |-> 0 - 20, rates |-> TableNoZar]}}

(* fetchRateTable called again and again by one process while the clock    *)
(* moves on                                                                 *)
MaxFetches == 3
MaxMinutes == 30

usdLower == <<" ", "u", "s", "d">>

TableBases == {USD, usdLower, ZAR}

Waits == {RateTableTtlMin - 1, RateTableTtlMin}

TableFetch ==
    /\ tableCall.n < MaxFetches
    /\ \E fromCurrency \in TableBases, response \in TableResponses :
         LET f == fetchRateTable(rateTableCache, fromCurrency, response, tableCall.clock)
         IN  /\ rateTableCache' = f.cache
             /\ tableCall' = [tableCall EXCEPT
                                 !.n = @ + 1,
                                 !.at = tableCall.clock,
                                 !.base = fromCurrency,
                                 !.before = rateTableCache,
                                 !.kind = response.kind,
                                 !.response = response.rates,
                                 !.rates = f.rates,
                                 !.requested = f.requested]
    /\ UNCHANGED <<config, batch, calc>>
    /\ UNCHANGED rateVars
    /\ UNCHANGED priceVars

TableWait ==
    /\ \E d \in Waits :
         /\ tableCall.clock + d <= MaxMinutes
         /\ tableCall' = [tableCall EXCEPT !.clock = @ + d]
    /\ UNCHANGED <<config, rateTableCache, batch, calc>>
    /\ UNCHANGED rateVars
    /\ UNCHANGED priceVars

----------------------------------------------------------------------------
(* PriceService: pure parts *)

NumCommodities == 2
Commodities == 1..NumCommodities

(* Math.random() is UNum / UDen for one of these numerators *)
UDen == 100
USamples == {0, 99}

parseNumberNoFiniteCheck(value) == value

parseNumber(value) ==
    IF value = Null THEN Null
    ELSE IF IsFinite(value) THEN value ELSE Null

(* x.toFixed(n) of a negative or positive quotient: half away from zero *)
RoundDivSigned(a, b) == IF a >= 0 THEN RoundDiv(a, b) ELSE 0 - RoundDiv(0 - a, b)

usdToZarOfConstant(zarToUsdRate) == InverseToFixed(FallbackRate, 6)

(* Number((1 / zarToUsdRate).toFixed(6)) *)
usdToZar(zarToUsdRate) == InverseToFixed(zarToUsdRate, 6)

(* parseFloat((price * rate).toFixed(4)) *)
TimesRate(price, rate) == RoundDiv(price * rate, RateScale)

generateRandomPriceFloor(minN, maxN, den, u) ==
    (minN * UDen + (maxN - minN) * u) \div (den * UDen)

(* generateRandomPrice for bounds minN/den and maxN/den and Math.random() = u/UDen *)
generateRandomPrice(minN, maxN, den, u) ==
    RoundDivSigned(minN * UDen + (maxN - minN) * u, den * UDen)

calculateChangePercentageTruncated(previousPrice, newPrice) ==
    LET prev == IF previousPrice = Null THEN 0 ELSE previousPrice
        next == newPrice
    IN  IF ~IsFinite(prev) \/ prev <= 0 \/ ~IsFinite(next) THEN 0
        ELSE ((next - prev) * 10000) \div prev

(* in hundredths of a percent *)
calculateChangePercentage(previousPrice, newPrice) ==
    LET prev == IF previousPrice = Null THEN 0 ELSE previousPrice
        next == newPrice
    IN  IF ~IsFinite(prev) \/ prev <= 0 \/ ~IsFinite(next) THEN 0
        ELSE RoundDivSigned((next - prev) * 10000, prev)

(* Calls of the two pure functions on their own.  Bounds are minN/den and  *)
(* maxN/den in units of 1e-4: 0.0010..0.0020, 0.0100..0.0200, 0..0.0001 and  *)
(* the USD bounds derived from the ZAR pair 0.0020..0.0040 at rate 0.054.    *)
PriceBoundPairs ==
    {[minN |-> 10, maxN |-> 20, den |-> 1],
     [minN |-> 100, maxN |-> 200, den |-> 1],
     [minN |-> 0, maxN |-> 1, den |-> 1],
     [minN |-> 20 * FallbackRate, maxN |-> 40 * FallbackRate, den |-> RateScale]}

PreviousInputs == {Null, NaN, Negative, 0, 3, 100, 250}
NewInputs == {NaN, 0, 1, 2, 5, 50, 110, 260}

PriceDraw ==
    /\ calc.fn = "none"
    /\ \E r \in PriceBoundPairs, u \in 0..(UDen - 1) :
         calc' = [fn |-> "generateRandomPrice", a |-> r.minN, b |-> r.maxN,
                  den |-> r.den, u |-> u,
                  out |-> generateRandomPrice(r.minN, r.maxN, r.den, u),
                  done |-> TRUE]
    /\ UNCHANGED <<config, rateTableCache, batch, tableCall>>
    /\ UNCHANGED rateVars
    /\ UNCHANGED priceVars

ChangeEval ==
    /\ calc.fn = "none"
    /\ \E previousPrice \in PreviousInputs, newPrice \in NewInputs :
         calc' = [fn |-> "calculateChangePercentage", a |-> previousPrice,
                  b |-> newPrice, den |-> 1, u |-> 0,
                  out |-> calculateChangePercentage(previousPrice, newPrice),
                  done |-> TRUE]
    /\ UNCHANGED <<config, rateTableCache, batch, tableCall>>
    /\ UNCHANGED rateVars
    /\ UNCHANGED priceVars

(* price_ranges rows *)
NoRange ==
    [min_price_zar |-> Null, max_price_zar |-> Null, min_price_usd |-> Null,
     max_price_usd |-> Null, is_active |-> FALSE, updated_by |-> Null,
     commodity_active |-> TRUE]

RangeRow(minZar, maxZar, minUsd, maxUsd, active, commodityActive) ==
    [min_price_zar |-> minZar, max_price_zar |-> maxZar, min_price_usd |-> minUsd,
     max_price_usd |-> maxUsd, is_active |-> active, updated_by |-> Null,
     commodity_active |-> commodityActive]

StoredRanges ==
    {RangeRow(Null, Null, 10, 20, TRUE, TRUE),
     RangeRow(20, 40, Null, Null, TRUE, TRUE),
     RangeRow(Null, 40, 10, Null, TRUE, TRUE),
     RangeRow(Null, Null, 10, 20, TRUE, FALSE),
     RangeRow(Null, Null, 10, 20, FALSE, TRUE)}

NoPrice ==
    [price_zar |-> Null, price_usd |-> Null, exchange_rate |-> Null,
     change_24h_percent |-> Null]

StoredPrice ==
    [price_zar |-> 250, price_usd |-> 14, exchange_rate |-> FallbackRate,
     change_24h_percent |-> 0]

StoredPrices == {NoPrice, StoredPrice}

(* the first commodity has a current price, the others have none yet *)
InitialPrices == [c \in Commodities |-> IF c = 1 THEN StoredPrice ELSE NoPrice]

(* .eq('is_active', true) and the !inner join, then the filter of line 83,  *)
(* in the order of the rows                                                 *)
ActiveRangesNoCommodityFilter(ranges) ==
    {c \in Commodities : ranges[c].is_active}

ActiveRanges(ranges) ==
    {c \in Commodities : ranges[c].is_active /\ ranges[c].commodity_active}

ResolveBoundsZarFirst(range, zarToUsdRate) ==
    LET minUsdRaw == parseNumber(range.min_price_usd)
        maxUsdRaw == parseNumber(range.max_price_usd)
        minZarRaw == parseNumber(range.min_price_zar)
        maxZarRaw == parseNumber(range.max_price_zar)
    IN  IF minZarRaw # Null /\ maxZarRaw # Null
        THEN [kind |-> "zar", minN |-> minZarRaw * zarToUsdRate,
              maxN |-> maxZarRaw * zarToUsdRate, den |-> RateScale]
        ELSE IF minUsdRaw # Null /\ maxUsdRaw # Null
        THEN [kind |-> "usd", minN |-> minUsdRaw, maxN |-> maxUsdRaw, den |-> 1]
        ELSE [kind |-> "skip", minN |-> Null, maxN |-> Null, den |-> 1]

ResolveBoundsNoSkip(range, zarToUsdRate) ==
    LET minUsdRaw == parseNumber(range.min_price_usd)
        maxUsdRaw == parseNumber(range.max_price_usd)
        minZarRaw == parseNumber(range.min_price_zar)
        maxZarRaw == parseNumber(range.max_price_zar)
    IN  IF minUsdRaw # Null /\ maxUsdRaw # Null
        THEN [kind |-> "usd", minN |-> minUsdRaw, maxN |-> maxUsdRaw, den |-> 1]
        ELSE IF minZarRaw # Null /\ maxZarRaw # Null
        THEN [kind |-> "zar", minN |-> minZarRaw * zarToUsdRate,
              maxN |-> maxZarRaw * zarToUsdRate, den |-> RateScale]
        ELSE [kind |-> "usd", minN |-> 0, maxN |-> 0, den |-> 1]

(* the bound pair of a range: USD if complete, else ZAR times the rate *)
ResolveBounds(range, zarToUsdRate) ==
    LET minUsdRaw == parseNumber(range.min_price_usd)
        maxUsdRaw == parseNumber(range.max_price_usd)
        minZarRaw == parseNumber(range.min_price_zar)
        maxZarRaw == parseNumber(range.max_price_zar)
    IN  IF minUsdRaw # Null /\ maxUsdRaw # Null
        THEN [kind |-> "usd", minN |-> minUsdRaw, maxN |-> maxUsdRaw, den |-> 1]
        ELSE IF minZarRaw # Null /\ maxZarRaw # Null
        THEN [kind |-> "zar", minN |-> minZarRaw * zarToUsdRate,
              maxN |-> maxZarRaw * zarToUsdRate, den |-> RateScale]
        ELSE [kind |-> "skip", minN |-> Null, maxN |-> Null, den |-> 1]

----------------------------------------------------------------------------
(* PriceService.updateDailyPrices *)

IdleDaily ==
    [pc |-> "idle", run |-> 0, triggerSource |-> "none", triggeredBy |-> Null,
     rateResolved |-> "none",
     zarToUsdRate |-> Null, usdToZarRate |-> Null, activeRanges |-> {},
     updatedCount |-> 0, skipped |-> <<>>, failures |-> <<>>,
     loaded |-> FALSE, loadOutcome |-> "none", rateOutcome |-> "none",
     runOutcome |-> "none", result |-> <<>>]

IdleTask ==
    [pc |-> "none", bounds |-> <<>>, price_usd |-> Null, price_zar |-> Null,
     change |-> Null, upsertOutcome |-> "none", historyOutcome |-> "none"]

IdleManual ==
    [op |-> "none", pc |-> "idle", commodityId |-> 0, input |-> <<>>,
     operator |-> Null, zarToUsdRate |-> Null, derived |-> <<>>, change |-> Null,
     upsertOutcome |-> "none", historyOutcome |-> "none", runOutcome |-> "none",
     writes |-> <<>>, error |-> "none"]

TerminalFulfilled == {"PERSISTED", "SKIPPED"}

Terminal == {"PERSISTED", "FAILED", "SKIPPED"}

(* an error returned and an exception thrown end a guarded write alike *)
Settled(outcome) == IF outcome = "ok" THEN "ok" ELSE "failed"

Triggers == {[source |-> "cron", by |-> Null], [source |-> "manual", by |-> 7]}

(* the entry of updateDailyPrices up to the await of getCurrencyRate *)
DailyStart ==
    /\ daily.pc = "idle"
    /\ call.pc = "idle"
    /\ \E t \in Triggers :
         daily' = [IdleDaily EXCEPT !.pc = "rate", !.run = 1,
                                    !.triggerSource = t.source,
                                    !.triggeredBy = t.by]
    /\ call' = BeginCall("daily", ZAR, USD)
    /\ UNCHANGED <<now, exchange_rates, last, price_ranges, current_prices,
                   price_history, price_update_runs, task, manual>>
    /\ UNCHANGED serviceVars

(* the rate is back: throw if it is unusable, else ask for the ranges *)
DailyRateResolved ==
    /\ daily.pc = "rate"
    /\ call.pc \in {"done", "thrown"}
    /\ call.caller = "daily"
    /\ daily' = IF call.pc = "thrown" \/ ~Truthy(call.result)
                THEN [daily EXCEPT !.pc = "thrown", !.rateResolved = "unusable"]
                ELSE [daily EXCEPT !.pc = "load",
                                   !.rateResolved = "usable",
                                   !.zarToUsdRate = call.result,
                                   !.usdToZarRate = usdToZar(call.result)]
    /\ call' = IdleCall(call.n)
    /\ UNCHANGED <<now, exchange_rates, last, price_ranges, current_prices,
                   price_history, price_update_runs, task, manual>>
    /\ UNCHANGED serviceVars

RECURSIVE SkippedOf(_, _, _)
SkippedOf(c, active, rate) ==
    IF c > NumCommodities THEN <<>>
    ELSE IF c \in active /\ ResolveBounds(price_ranges[c], rate).kind = "skip"
         THEN <<[commodityId |-> c, reason |-> "Incomplete price range values"]>>
              \o SkippedOf(c + 1, active, rate)
    ELSE SkippedOf(c + 1, active, rate)

(* what one map callback does before its first await *)
TaskBegin(c, rate, u) ==
    LET b == ResolveBounds(price_ranges[c], rate)
        newPriceUsd == generateRandomPrice(b.minN, b.maxN, b.den, u)
    IN  IF b.kind = "skip" THEN [IdleTask EXCEPT !.pc = "SKIPPED"]
        ELSE [IdleTask EXCEPT !.pc = "read", !.bounds = <<b>>,
                              !.price_usd = newPriceUsd,
                              !.price_zar = TimesRate(newPriceUsd, usdToZar(rate))]

RangeLoadFailedOnlyThrow(outcome) == outcome = "throw"

(* lines 79-81: if (rangeError) throw rangeError; a rejected await throws   *)
RangeLoadFailed(outcome) == outcome # "ok"

(* the ranges are back: throw on an error, else start every per-commodity  *)
(* task; each runs up to its first await                                    *)
DailyLoadRanges ==
    /\ daily.pc = "load"
    /\ \E outcome \in StoreOutcomes :
         IF RangeLoadFailed(outcome)
         THEN /\ daily' = [daily EXCEPT !.pc = "thrown", !.loadOutcome = outcome]
              /\ task' = task
         ELSE \E us \in [Commodities -> USamples] :
                LET active == ActiveRanges(price_ranges)
                IN  /\ daily' = [daily EXCEPT
                                    !.pc = "fanout",
                                    !.loaded = TRUE,
                                    !.loadOutcome = outcome,
                                    !.activeRanges = active,
                                    !.skipped = SkippedOf(1, active, daily.zarToUsdRate)]
                    /\ task' = [c \in Commodities |->
                                  IF c \in active
                                  THEN TaskBegin(c, daily.zarToUsdRate, us[c])
                                  ELSE IdleTask]
    /\ UNCHANGED <<now, exchange_rates, call, last, price_ranges, current_prices,
                   price_history, price_update_runs, manual>>
    /\ UNCHANGED serviceVars

(* getCurrentPriceRecord: the row, or null on an error *)
getCurrentPriceRecord(c, outcome) ==
    IF outcome = "ok" THEN current_prices[c] ELSE NoPrice

PreviousPriceZar(record) ==
    IF Truthy(record.price_zar) THEN record.price_zar ELSE Null

TaskRead(c) ==
    /\ task[c].pc = "read"
    /\ \E outcome \in StoreOutcomes :
         LET previousPriceZar == PreviousPriceZar(getCurrentPriceRecord(c, outcome))
         IN  task' = [task EXCEPT ![c].pc = "upsert",
                                  ![c].change = calculateChangePercentage(
                                                    previousPriceZar, task[c].price_zar)]
    /\ UNCHANGED <<now, exchange_rates, call, last, price_ranges, current_prices,
                   price_history, price_update_runs, daily, manual>>
    /\ UNCHANGED serviceVars

upsertKeepingChange(stored, row) ==
    [row EXCEPT !.change_24h_percent = stored.change_24h_percent]

(* .upsert(row, { onConflict: 'commodity_id' }): the row of the commodity   *)
(* is inserted, or replaced as a whole                                      *)
upsert(stored, row) == row

(* the catch of one map callback *)
RethrowItem(d, c, table) ==
    [d EXCEPT !.pc = "thrown"]

CatchItem(d, c, table) ==
    [d EXCEPT !.failures = Append(@, [commodityId |-> c, message |-> table])]

AfterUpsertIgnoringError(outcome) == "history"

(* if (currentError) throw currentError: the history insert is reached only *)
(* past a CurrentPrice upsert that passed                                   *)
AfterUpsert(outcome) == IF outcome = "ok" THEN "history" ELSE "FAILED"

TaskUpsert(c) ==
    /\ task[c].pc = "upsert"
    /\ \E outcome \in StoreOutcomes :
         /\ task' = [task EXCEPT ![c].pc = AfterUpsert(outcome),
                                 ![c].upsertOutcome = Settled(outcome)]
         /\ current_prices' =
              IF outcome = "ok"
              THEN [current_prices EXCEPT ![c] =
                       upsert(@, [price_zar |-> task[c].price_zar,
                                  price_usd |-> task[c].price_usd,
                                  exchange_rate |-> daily.zarToUsdRate,
                                  change_24h_percent |-> task[c].change])]
              ELSE current_prices
         /\ daily' = IF outcome = "ok" THEN daily
                     ELSE CatchItem(daily, c, "current_prices")
    /\ UNCHANGED <<now, exchange_rates, call, last, price_ranges,
                   price_history, price_update_runs, manual>>
    /\ UNCHANGED serviceVars

(* an increment that reads the counter before another task's write *)
IncrementFromStale(updatedCount) == IF updatedCount = 0 THEN 1 ELSE updatedCount

(* updatedCount += 1, with no await between the read and the write *)
Increment(updatedCount) == updatedCount + 1

TaskHistory(c) ==
    /\ task[c].pc = "history"
    /\ \E outcome \in StoreOutcomes :
         /\ task' = [task EXCEPT ![c].pc = IF outcome = "ok" THEN "PERSISTED" ELSE "FAILED",
                                 ![c].historyOutcome = Settled(outcome)]
         /\ price_history' =
              IF outcome = "ok"
              THEN price_history \cup
                     {[commodity_id |-> c, price_zar |-> task[c].price_zar,
                       price_usd |-> task[c].price_usd,
                       exchange_rate |-> daily.zarToUsdRate, run |-> daily.run]}
              ELSE price_history
         /\ daily' = IF outcome = "ok"
                     THEN [daily EXCEPT !.updatedCount = Increment(@)]
                     ELSE CatchItem(daily, c, "price_history")
    /\ UNCHANGED <<now, exchange_rates, call, last, price_ranges, current_prices,
                   price_update_runs, manual>>
    /\ UNCHANGED serviceVars

(* await Promise.all(...): every task has settled *)
SomeSettled(active) == \E c \in active : task[c].pc \in Terminal

AllSettled(active) == \A c \in active : task[c].pc \in Terminal

DailyLogRateIfUpdated ==
    /\ daily.pc = "fanout"
    /\ AllSettled(daily.activeRanges)
    /\ \E outcome \in StoreOutcomes :
         /\ exchange_rates' = IF daily.updatedCount = 0 THEN exchange_rates
                              ELSE saveExchangeRate(exchange_rates, ZAR, USD,
                                                    daily.zarToUsdRate, "daily_update",
                                                    outcome, now)
         /\ daily' = IF daily.updatedCount = 0 THEN [daily EXCEPT !.pc = "log_run"]
                     ELSE [daily EXCEPT !.pc = IF outcome = "throw" THEN "thrown"
                                               ELSE "log_run",
                                        !.rateOutcome = outcome]
    /\ UNCHANGED <<now, call, last, price_ranges, current_prices,
                   price_history, price_update_runs, task, manual>>
    /\ UNCHANGED serviceVars

(* the daily_update insert: an error is logged, an exception reaches the   *)
(* outer catch                                                              *)
DailyLogRate ==
    /\ daily.pc = "fanout"
    /\ AllSettled(daily.activeRanges)
    /\ \E outcome \in StoreOutcomes :
         /\ exchange_rates' = saveExchangeRate(exchange_rates, ZAR, USD,
                                               daily.zarToUsdRate, "daily_update",
                                               outcome, now)
         /\ daily' = [daily EXCEPT !.pc = IF outcome = "throw" THEN "thrown"
                                          ELSE "log_run",
                                   !.rateOutcome = outcome]
    /\ UNCHANGED <<now, call, last, price_ranges, current_prices,
                   price_history, price_update_runs, task, manual>>
    /\ UNCHANGED serviceVars

runStatusAlwaysSuccess(updatedCount) == "success"

(* updatedCount > 0 ? 'success' : 'no_updates' *)
runStatus(updatedCount) == IF updatedCount > 0 THEN "success" ELSE "no_updates"

(* the price_update_runs insert inside its own try, then the return *)
DailyLogRun ==
    /\ daily.pc = "log_run"
    /\ \E outcome \in StoreOutcomes :
         /\ price_update_runs' =
              IF outcome = "ok"
              THEN Append(price_update_runs,
                          [run |-> daily.run,
                           triggered_by |-> daily.triggeredBy,
                           trigger_source |-> daily.triggerSource,
                           total_commodities |-> Cardinality(daily.activeRanges),
                           updated_commodities |-> daily.updatedCount,
                           status |-> runStatus(daily.updatedCount)])
              ELSE price_update_runs
         /\ daily' = [daily EXCEPT
                         !.pc = "returned",
                         !.runOutcome = Settled(outcome),
                         !.result = <<[success |-> TRUE,
                                       updated |-> daily.updatedCount,
                                       total |-> Cardinality(daily.activeRanges),
                                       skipped |-> daily.skipped,
                                       failures |-> daily.failures]>>]
    /\ UNCHANGED <<now, exchange_rates, call, last, price_ranges, current_prices,
                   price_history, task, manual>>
    /\ UNCHANGED serviceVars

InitDaily ==
    /\ now = 0
    /\ exchange_rates = <<>>
    /\ call = IdleCall(0)
    /\ last = NoLast
    /\ price_ranges \in [Commodities -> StoredRanges]
    /\ current_prices = InitialPrices
    /\ price_history = {}
    /\ price_update_runs = <<>>
    /\ daily = IdleDaily
    /\ task = [c \in Commodities |-> IdleTask]
    /\ manual = IdleManual
    /\ ServiceInitIdle

NextDaily ==
    \/ DailyStart
    \/ CacheRead
    \/ ApiFetch
    \/ SaveApi
    \/ StaleQuery
    \/ SaveFallback
    \/ DailyRateResolved
    \/ DailyLoadRanges
    \/ \E c \in Commodities : TaskRead(c)
    \/ \E c \in Commodities : TaskUpsert(c)
    \/ \E c \in Commodities : TaskHistory(c)
    \/ DailyLogRate
    \/ DailyLogRun

SpecDaily == InitDaily /\ [][NextDaily]_vars

(* A run in which the first range holds both pairs, the ZAR pair only, or   *)
(* the USD pair only, and every other range holds the ZAR pair only         *)
BoundRanges ==
    {RangeRow(20, 40, 10, 20, TRUE, TRUE),
     RangeRow(20, 40, Null, Null, TRUE, TRUE),
     RangeRow(NaN, 40, 10, 20, TRUE, TRUE)}

InitBounds ==
    /\ now = 0
    /\ exchange_rates = <<>>
    /\ call = IdleCall(0)
    /\ last = NoLast
    /\ \E first \in BoundRanges :
         price_ranges = [c \in Commodities |->
                            IF c = 1 THEN first
                            ELSE RangeRow(20, 40, Null, Null, TRUE, TRUE)]
    /\ current_prices = InitialPrices
    /\ price_history = {}
    /\ price_update_runs = <<>>
    /\ daily = IdleDaily
    /\ task = [c \in Commodities |-> IdleTask]
    /\ manual = IdleManual
    /\ ServiceInitIdle

SpecBounds == InitBounds /\ [][NextDaily]_vars

----------------------------------------------------------------------------
(* PriceService.updateCommodityPrice *)

(* prices of the request body, counted in 1e-5 so that toFixed(4) rounds *)
InputScale == 10
PriceInputs == {Null, NaN, 15, 20}
OperatorId == 7

ManualThrow(m, message) == [m EXCEPT !.pc = "thrown", !.error = message]

(* x.toFixed(4) of a price counted in 1e-5 *)
ToFixed4(raw) == RoundDiv(raw, InputScale)

(* lines 238-258: both prices, or the exception *)
ResolvePrices(prices, zarToUsdRate) ==
    LET priceUsd == parseNumber(prices.priceUsd)
        priceZar == parseNumber(prices.priceZar)
    IN  IF priceUsd = Null /\ priceZar = Null
        THEN [ok |-> FALSE, usd |-> Null, zar |-> Null]
        ELSE [ok |-> TRUE,
              usd |-> IF priceUsd = Null
                      THEN RoundDiv(priceZar * zarToUsdRate, RateScale * InputScale)
                      ELSE ToFixed4(priceUsd),
              zar |-> IF priceZar = Null
                      THEN RoundDiv(priceUsd * usdToZar(zarToUsdRate),
                                    RateScale * InputScale)
                      ELSE ToFixed4(priceZar)]

ManualPriceStart ==
    /\ manual.op = "none"
    /\ call.pc = "idle"
    /\ \E c \in Commodities, usd \in PriceInputs, zar \in PriceInputs :
         manual' = [IdleManual EXCEPT !.op = "price", !.pc = "rate",
                                      !.commodityId = c,
                                      !.input = [priceUsd |-> usd, priceZar |-> zar],
                                      !.operator = OperatorId]
    /\ call' = BeginCall("manual", ZAR, USD)
    /\ UNCHANGED <<now, exchange_rates, last, price_ranges, current_prices,
                   price_history, price_update_runs, daily, task>>
    /\ UNCHANGED serviceVars

ManualPriceRate ==
    /\ manual.op = "price"
    /\ manual.pc = "rate"
    /\ call.pc \in {"done", "thrown"}
    /\ call.caller = "manual"
    /\ LET p == ResolvePrices(manual.input, call.result)
       IN  manual' =
             IF call.pc = "thrown" \/ ~Truthy(call.result)
             THEN ManualThrow(manual, "Failed to load exchange rate")
             ELSE IF ~p.ok
             THEN ManualThrow([manual EXCEPT !.zarToUsdRate = call.result],
                              "A price must be provided in USD or ZAR")
             ELSE [manual EXCEPT !.pc = "read", !.zarToUsdRate = call.result,
                                 !.derived = <<p>>]
    /\ call' = IdleCall(call.n)
    /\ UNCHANGED <<now, exchange_rates, last, price_ranges, current_prices,
                   price_history, price_update_runs, daily, task>>
    /\ UNCHANGED serviceVars

ManualPriceRead ==
    /\ manual.op = "price"
    /\ manual.pc = "read"
    /\ \E outcome \in StoreOutcomes :
         LET previousPriceZar ==
                 PreviousPriceZar(getCurrentPriceRecord(manual.commodityId, outcome))
         IN  manual' = [manual EXCEPT
                          !.pc = "upsert",
                          !.change = calculateChangePercentage(previousPriceZar,
                                                               manual.derived[1].zar)]
    /\ UNCHANGED <<now, exchange_rates, call, last, price_ranges, current_prices,
                   price_history, price_update_runs, daily, task>>
    /\ UNCHANGED serviceVars

ManualPriceUpsert ==
    /\ manual.op = "price"
    /\ manual.pc = "upsert"
    /\ \E outcome \in StoreOutcomes :
         /\ current_prices' =
              IF outcome = "ok"
              THEN [current_prices EXCEPT ![manual.commodityId] =
                       upsert(@, [price_zar |-> manual.derived[1].zar,
                                  price_usd |-> manual.derived[1].usd,
                                  exchange_rate |-> manual.zarToUsdRate,
                                  change_24h_percent |-> manual.change])]
              ELSE current_prices
         /\ manual' =
              LET m == [manual EXCEPT !.upsertOutcome = Settled(outcome),
                                      !.writes = Append(@, "current_prices")]
              IN  IF outcome = "ok" THEN [m EXCEPT !.pc = "history"]
                  ELSE ManualThrow(m, "current_prices")
    /\ UNCHANGED <<now, exchange_rates, call, last, price_ranges,
                   price_history, price_update_runs, daily, task>>
    /\ UNCHANGED serviceVars

ManualRun == 2

ManualPriceHistory ==
    /\ manual.op = "price"
    /\ manual.pc = "history"
    /\ \E outcome \in StoreOutcomes :
         /\ price_history' =
              IF outcome = "ok"
              THEN price_history \cup
                     {[commodity_id |-> manual.commodityId,
                       price_zar |-> manual.derived[1].zar,
                       price_usd |-> manual.derived[1].usd,
                       exchange_rate |-> manual.zarToUsdRate, run |-> ManualRun]}
              ELSE price_history
         /\ manual' =
              LET m == [manual EXCEPT !.historyOutcome = Settled(outcome),
                                      !.writes = Append(@, "price_history")]
              IN  IF outcome = "ok" THEN [m EXCEPT !.pc = "log_run"]
                  ELSE ManualThrow(m, "price_history")
    /\ UNCHANGED <<now, exchange_rates, call, last, price_ranges, current_prices,
                   price_update_runs, daily, task>>
    /\ UNCHANGED serviceVars

(* the names declared in updateCommodityPrice and those its return reads *)
DeclaredNames ==
    {"commodityId", "prices", "triggeredBy", "triggerSource", "client",
     "zarToUsdRate", "usdToZarRate", "parseNumber", "priceUsd", "priceZar",
     "normalizedUsd", "normalizedZar", "currentRecord", "previousPriceZar",
     "change24hValue", "currentError", "historyError"}

ReturnReads ==
    {"commodityId", "normalizedZar", "normalizedUsd", "change24h", "zarToUsdRate"}

(* the return statement: reading a name that is not declared throws a      *)
(* ReferenceError, which the outer catch rethrows                           *)
ManualPriceResult(m) ==
    IF ReturnReads \subseteq DeclaredNames
    THEN [m EXCEPT !.pc = "returned"]
    ELSE ManualThrow(m, "ReferenceError")

(* the price_update_runs insert inside its own try, then the return *)
ManualPriceLogRun ==
    /\ manual.op = "price"
    /\ manual.pc = "log_run"
    /\ \E outcome \in StoreOutcomes :
         /\ price_update_runs' =
              IF outcome = "ok"
              THEN Append(price_update_runs,
                          [run |-> ManualRun,
                           triggered_by |-> manual.operator,
                           trigger_source |-> "manual_single",
                           total_commodities |-> 1,
                           updated_commodities |-> 1,
                           status |-> "success"])
              ELSE price_update_runs
         /\ manual' = ManualPriceResult(
                          [manual EXCEPT !.runOutcome = Settled(outcome),
                                         !.writes = Append(@, "price_update_runs")])
    /\ UNCHANGED <<now, exchange_rates, call, last, price_ranges, current_prices,
                   price_history, daily, task>>
    /\ UNCHANGED serviceVars

----------------------------------------------------------------------------
(* PriceService.updatePriceRange *)

RangeInput(minUsd, maxUsd, minZar, maxZar) ==
    [minPriceUsd |-> minUsd, maxPriceUsd |-> maxUsd,
     minPriceZar |-> minZar, maxPriceZar |-> maxZar]

RangeInputs ==
    {RangeInput(10, 20, Null, Null),
     RangeInput(20, 10, Null, Null),
     RangeInput(10, 10, Null, Null),
     RangeInput(Null, Null, 20, 40),
     RangeInput(Null, Null, 2, 4),
     RangeInput(Null, Null, 40, 20),
     RangeInput(10, Null, Null, 40),
     RangeInput(NaN, 20, 20, 40),
     RangeInput(10, 20, 40, 20),
     RangeInput(10, 20, 20, 40)}

ResolveRangeZarFirst(range, zarToUsdRate) ==
    LET minPriceUsd == parseNumber(range.minPriceUsd)
        maxPriceUsd == parseNumber(range.maxPriceUsd)
        minPriceZar == parseNumber(range.minPriceZar)
        maxPriceZar == parseNumber(range.maxPriceZar)
    IN  IF minPriceZar # Null /\ maxPriceZar # Null
        THEN <<[minPriceUsd |-> TimesRate(minPriceZar, zarToUsdRate),
                maxPriceUsd |-> TimesRate(maxPriceZar, zarToUsdRate),
                minPriceZar |-> minPriceZar, maxPriceZar |-> maxPriceZar]>>
        ELSE IF minPriceUsd # Null /\ maxPriceUsd # Null
        THEN <<[minPriceUsd |-> minPriceUsd, maxPriceUsd |-> maxPriceUsd,
                minPriceZar |-> TimesRate(minPriceUsd, usdToZar(zarToUsdRate)),
                maxPriceZar |-> TimesRate(maxPriceUsd, usdToZar(zarToUsdRate))]>>
        ELSE <<>>

(* lines 361-374: the four bounds, or nothing when no pair is complete *)
ResolveRange(range, zarToUsdRate) ==
    LET minPriceUsd == parseNumber(range.minPriceUsd)
        maxPriceUsd == parseNumber(range.maxPriceUsd)
        minPriceZar == parseNumber(range.minPriceZar)
        maxPriceZar == parseNumber(range.maxPriceZar)
    IN  IF minPriceUsd # Null /\ maxPriceUsd # Null
        THEN <<[minPriceUsd |-> minPriceUsd, maxPriceUsd |-> maxPriceUsd,
                minPriceZar |-> TimesRate(minPriceUsd, usdToZar(zarToUsdRate)),
                maxPriceZar |-> TimesRate(maxPriceUsd, usdToZar(zarToUsdRate))]>>
        ELSE IF minPriceZar # Null /\ maxPriceZar # Null
        THEN <<[minPriceUsd |-> TimesRate(minPriceZar, zarToUsdRate),
                maxPriceUsd |-> TimesRate(maxPriceZar, zarToUsdRate),
                minPriceZar |-> minPriceZar, maxPriceZar |-> maxPriceZar]>>
        ELSE <<>>

RangeOrderInvalidStrict(r) ==
    r.minPriceUsd > r.maxPriceUsd \/ r.minPriceZar > r.maxPriceZar

(* line 376 *)
RangeOrderInvalid(r) ==
    r.minPriceUsd >= r.maxPriceUsd \/ r.minPriceZar >= r.maxPriceZar

RangeStart ==
    /\ manual.op = "none"
    /\ call.pc = "idle"
    /\ \E c \in Commodities, r \in RangeInputs :
         manual' = [IdleManual EXCEPT !.op = "range", !.pc = "rate",
                                      !.commodityId = c, !.input = r,
                                      !.operator = OperatorId]
    /\ call' = BeginCall("range", ZAR, USD)
    /\ UNCHANGED <<now, exchange_rates, last, price_ranges, current_prices,
                   price_history, price_update_runs, daily, task>>
    /\ UNCHANGED serviceVars

RangeRate ==
    /\ manual.op = "range"
    /\ manual.pc = "rate"
    /\ call.pc \in {"done", "thrown"}
    /\ call.caller = "range"
    /\ LET r == ResolveRange(manual.input, call.result)
       IN  manual' =
             IF call.pc = "thrown" \/ ~Truthy(call.result)
             THEN ManualThrow(manual, "Failed to load exchange rate for price range update")
             ELSE IF r = <<>>
             THEN ManualThrow([manual EXCEPT !.zarToUsdRate = call.result],
                              "Valid price range values were not provided")
             ELSE IF RangeOrderInvalid(r[1])
             THEN ManualThrow([manual EXCEPT !.zarToUsdRate = call.result,
                                             !.derived = r],
                              "Minimum price must be less than maximum price")
             ELSE [manual EXCEPT !.pc = "upsert", !.zarToUsdRate = call.result,
                                 !.derived = r]
    /\ call' = IdleCall(call.n)
    /\ UNCHANGED <<now, exchange_rates, last, price_ranges, current_prices,
                   price_history, price_update_runs, daily, task>>
    /\ UNCHANGED serviceVars

RangeUpsert ==
    /\ manual.op = "range"
    /\ manual.pc = "upsert"
    /\ \E outcome \in StoreOutcomes :
         /\ price_ranges' =
              IF outcome = "ok"
              THEN [price_ranges EXCEPT ![manual.commodityId] =
                       [min_price_zar |-> manual.derived[1].minPriceZar,
                        max_price_zar |-> manual.derived[1].maxPriceZar,
                        min_price_usd |-> manual.derived[1].minPriceUsd,
                        max_price_usd |-> manual.derived[1].maxPriceUsd,
                        is_active |-> TRUE,
                        updated_by |-> manual.operator,
                        commodity_active |-> @.commodity_active]]
              ELSE price_ranges
         /\ manual' =
              LET m == [manual EXCEPT !.upsertOutcome = Settled(outcome),
                                      !.writes = Append(@, "price_ranges")]
              IN  IF outcome = "ok" THEN [m EXCEPT !.pc = "returned"]
                  ELSE ManualThrow(m, "price_ranges")
    /\ UNCHANGED <<now, exchange_rates, call, last, current_prices,
                   price_history, price_update_runs, daily, task>>
    /\ UNCHANGED serviceVars

InitManual ==
    /\ now = 0
    /\ exchange_rates = <<>>
    /\ call = IdleCall(0)
    /\ last = NoLast
    /\ \E r \in {NoRange, RangeRow(Null, Null, 10, 20, TRUE, TRUE)} :
          price_ranges = [c \in Commodities |-> r]
    /\ current_prices = InitialPrices
    /\ price_history = {}
    /\ price_update_runs = <<>>
    /\ daily = IdleDaily
    /\ task = [c \in Commodities |-> IdleTask]
    /\ manual = IdleManual
    /\ ServiceInitIdle

NextManual ==
    \/ ManualPriceStart
    \/ RangeStart
    \/ CacheRead
    \/ ApiFetch
    \/ SaveApi
    \/ StaleQuery
    \/ SaveFallback
    \/ ManualPriceRate
    \/ ManualPriceRead
    \/ ManualPriceUpsert
    \/ ManualPriceHistory
    \/ ManualPriceLogRun
    \/ RangeRate
    \/ RangeUpsert

SpecManual == InitManual /\ [][NextManual]_vars

----------------------------------------------------------------------------
(* A run of updateDailyPrices and a call of updateCommodityPrice that are   *)
(* not mutually excluded: the operator's update arrives while the tasks of  *)
(* the run are under way, and the steps of the two interleave freely        *)

(* the operator supplies one price, in ZAR or in USD, for a commodity of    *)
(* the run                                                                  *)
OverlapInputs ==
    {[priceUsd |-> Null, priceZar |-> 20], [priceUsd |-> 15, priceZar |-> Null]}

(* the first commodity has an active range, the others have none *)
InitOverlap ==
    /\ now = 0
    /\ exchange_rates = <<>>
    /\ call = IdleCall(0)
    /\ last = NoLast
    /\ price_ranges = [c \in Commodities |->
                          IF c = 1 THEN RangeRow(Null, Null, 10, 20, TRUE, TRUE)
                          ELSE NoRange]
    /\ current_prices = InitialPrices
    /\ price_history = {}
    /\ price_update_runs = <<>>
    /\ daily = IdleDaily
    /\ task = [c \in Commodities |-> IdleTask]
    /\ manual = IdleManual
    /\ ServiceInitIdle

NextOverlap ==
    \/ DailyStart
    \/ /\ daily.pc = "fanout"
       /\ ManualPriceStart
       /\ manual'.commodityId \in daily.activeRanges
       /\ manual'.input \in OverlapInputs
    \/ CacheRead
    \/ ApiFetch
    \/ SaveApi
    \/ StaleQuery
    \/ SaveFallback
    \/ DailyRateResolved
    \/ DailyLoadRanges
    \/ \E c \in Commodities : TaskRead(c)
    \/ \E c \in Commodities : TaskUpsert(c)
    \/ \E c \in Commodities : TaskHistory(c)
    \/ DailyLogRate
    \/ DailyLogRun
    \/ ManualPriceRate
    \/ ManualPriceRead
    \/ ManualPriceUpsert
    \/ ManualPriceHistory
    \/ ManualPriceLogRun

SpecOverlap == InitOverlap /\ [][NextOverlap]_vars

----------------------------------------------------------------------------
(* The pure functions of PriceService on their own *)

InitCalc ==
    /\ now = 0
    /\ exchange_rates = <<>>
    /\ call = IdleCall(0)
    /\ last = NoLast
    /\ price_ranges = [c \in Commodities |-> NoRange]
    /\ current_prices = [c \in Commodities |-> NoPrice]
    /\ price_history = {}
    /\ price_update_runs = <<>>
    /\ daily = IdleDaily
    /\ task = [c \in Commodities |-> IdleTask]
    /\ manual = IdleManual
    /\ ServiceInitIdle

NextCalc ==
    \/ PriceDraw
    \/ ChangeEval

SpecCalc == InitCalc /\ [][NextCalc]_vars

Abs(x) == IF x < 0 THEN 0 - x ELSE x

PriceDrawn == calc.fn = "generateRandomPrice" /\ calc.done

(* C13 as claimed: generateRandomPrice(min, max) returns v with              *)
(* min <= v < max.                                                          *)
C13_Original ==
    PriceDrawn => (calc.a <= calc.out * calc.den /\ calc.out * calc.den < calc.b)

(* C13 as amended: v is min + (max - min) * U rounded to the nearest         *)
(* multiple of 0.0001, so v lies between min and max rounded to 4 decimals   *)
(* and can be equal to max.                                                 *)
C13_RoundedIntoClosedRange ==
    PriceDrawn =>
        /\ 2 * Abs(calc.out * calc.den * UDen
                   - (calc.a * UDen + (calc.b - calc.a) * calc.u)) <= calc.den * UDen
        /\ 2 * calc.a - calc.den <= 2 * calc.out * calc.den
        /\ 2 * calc.out * calc.den <= 2 * calc.b + calc.den

(* bounds 0.0010 and 0.0020 with Math.random() = 0.99 give 0.0020 *)
C13_Witness ==
    /\ PriceDrawn
    /\ calc.a = 10
    /\ calc.b = 20
    /\ calc.u = 99
    /\ calc.out = calc.b

ChangeEvaluated == calc.fn = "calculateChangePercentage" /\ calc.done

(* C14: calculateChangePercentage(previous, next) is ((next - previous) /    *)
(* previous) * 100 rounded to 2 decimals when previous is a finite number    *)
(* above 0 and next is finite, and is 0 when previous is absent, zero,       *)
(* negative or not finite or next is not finite.                            *)
C14_ChangePercentage ==
    ChangeEvaluated =>
        IF calc.a > 0 /\ calc.b >= 0
        THEN 2 * Abs(calc.out * calc.a - (calc.b - calc.a) * 10000) <= calc.a
        ELSE calc.out = 0

(* from 3 to 5 is 66.67 percent *)
C14_Witness ==
    /\ ChangeEvaluated
    /\ calc.a = 3
    /\ calc.b = 5
    /\ calc.out = 6667

----------------------------------------------------------------------------
(* The resolver on its own: calls of GET /rate and the clock *)

PriceInitIdle ==
    /\ price_ranges = [c \in Commodities |-> NoRange]
    /\ current_prices = [c \in Commodities |-> NoPrice]
    /\ price_history = {}
    /\ price_update_runs = <<>>
    /\ daily = IdleDaily
    /\ task = [c \in Commodities |-> IdleTask]
    /\ manual = IdleManual

Init ==
    /\ now = 0
    /\ exchange_rates = <<>>
    /\ call = IdleCall(0)
    /\ last = NoLast
    /\ PriceInitIdle
    /\ ServiceInitIdle

Next ==
    \/ CallStart
    \/ CacheRead
    \/ ApiFetch
    \/ SaveApi
    \/ StaleQuery
    \/ SaveFallback
    \/ CallReturn
    \/ Tick

Spec == Init /\ [][Next]_vars

(* Calls for ZAR as the base, starting from a log whose one row was written *)
(* by the live tier, by the fallback tier, by a daily run or by the batch    *)
(* path                                                                      *)
RowSources == {"api", "fallback", "daily_update", "api_batch"}

StoredRateOf(source) ==
    [from_currency |-> ZAR, to_currency |-> USD, rate |-> 56000,
     recorded_at |-> 0, source |-> source]

InitSources ==
    /\ now = 0
    /\ \E source \in RowSources : exchange_rates = <<StoredRateOf(source)>>
    /\ call = IdleCall(0)
    /\ last = NoLast
    /\ PriceInitIdle
    /\ ServiceInitIdle

NextSources ==
    \/ CallStart /\ call'.fromRaw = ZAR
    \/ CacheRead
    \/ ApiFetch
    \/ SaveApi
    \/ StaleQuery
    \/ SaveFallback
    \/ CallReturn
    \/ Tick

SpecSources == InitSources /\ [][NextSources]_vars

(* One call of GET /rates *)
InitBatch ==
    /\ now = 0
    /\ exchange_rates \in {<<>>, <<FreshEurRow>>}
    /\ call = IdleCall(0)
    /\ last = NoLast
    /\ PriceInitIdle
    /\ config = DefaultConfig
    /\ rateTableCache \in StoredCaches
    /\ batch = IdleBatch
    /\ calc = NoCalc
    /\ tableCall = NoTableCall

NextBatch ==
    \/ BatchStart
    \/ BatchCacheRead
    \/ BatchFetchTable
    \/ BatchPairStart
    \/ CacheRead
    \/ ApiFetch
    \/ SaveApi
    \/ StaleQuery
    \/ SaveFallback
    \/ BatchPairResolved
    \/ BatchSaveLands

SpecBatch == InitBatch /\ [][NextBatch]_vars

(* One process whose inverse precision was read from the environment *)
InitFallback ==
    /\ now = 0
    /\ exchange_rates = <<>>
    /\ call = IdleCall(0)
    /\ last = NoLast
    /\ PriceInitIdle
    /\ config \in Configs
    /\ rateTableCache = EmptyCache
    /\ batch = IdleBatch
    /\ calc = NoCalc
    /\ tableCall = NoTableCall

NextFallback ==
    \/ CallStart
    \/ CacheRead
    \/ ApiFetch
    \/ SaveApi
    \/ StaleQuery
    \/ SaveFallback
    \/ CallReturn

SpecFallback == InitFallback /\ [][NextFallback]_vars

(* The three logs with rows left by earlier operations, then one operation  *)
(* of the core: getCurrencyRate, getCurrencyRates, updateDailyPrices,       *)
(* updateCommodityPrice or updatePriceRange.                                *)
EarlierRateRow ==
    [from_currency |-> ZAR, to_currency |-> USD, rate |-> 56000,
     recorded_at |-> 0 - 5, source |-> "api"]

EarlierHistoryRow ==
    [commodity_id |-> 1, price_zar |-> StoredPrice.price_zar,
     price_usd |-> StoredPrice.price_usd, exchange_rate |-> FallbackRate,
     run |-> 0]

EarlierRunRow ==
    [run |-> 0, triggered_by |-> Null, trigger_source |-> "cron",
     total_commodities |-> NumCommodities, updated_commodities |-> 1,
     status |-> "success"]

InitStore ==
    /\ now = 0
    /\ exchange_rates \in {<<EarlierRateRow>>, <<FreshEurRow>>}
    /\ call = IdleCall(0)
    /\ last = NoLast
    /\ \E r \in {NoRange, RangeRow(Null, Null, 10, 20, TRUE, TRUE)} :
          price_ranges = [c \in Commodities |-> r]
    /\ current_prices = InitialPrices
    /\ price_history = {EarlierHistoryRow}
    /\ price_update_runs = <<EarlierRunRow>>
    /\ daily = IdleDaily
    /\ task = [c \in Commodities |-> IdleTask]
    /\ manual = IdleManual
    /\ config = DefaultConfig
    /\ rateTableCache \in StoredCaches
    /\ batch = IdleBatch
    /\ calc = NoCalc
    /\ tableCall = NoTableCall

(* no operation has been asked for yet *)
NoOperationYet ==
    /\ call.n = 0
    /\ daily.pc = "idle"
    /\ manual.op = "none"
    /\ batch.pc = "idle"

NextStore ==
    \/ NoOperationYet /\ CallStart
    \/ NoOperationYet /\ BatchStart
    \/ NoOperationYet /\ DailyStart
    \/ NoOperationYet /\ ManualPriceStart
    \/ NoOperationYet /\ RangeStart
    \/ CacheRead
    \/ ApiFetch
    \/ SaveApi
    \/ StaleQuery
    \/ SaveFallback
    \/ CallReturn
    \/ BatchCacheRead
    \/ BatchFetchTable
    \/ BatchPairStart
    \/ BatchPairResolved
    \/ BatchSaveLands
    \/ DailyRateResolved
    \/ DailyLoadRanges
    \/ \E c \in Commodities : TaskRead(c)
    \/ \E c \in Commodities : TaskUpsert(c)
    \/ \E c \in Commodities : TaskHistory(c)
    \/ DailyLogRate
    \/ DailyLogRun
    \/ ManualPriceRate
    \/ ManualPriceRead
    \/ ManualPriceUpsert
    \/ ManualPriceHistory
    \/ ManualPriceLogRun
    \/ RangeRate
    \/ RangeUpsert

SpecStore == InitStore /\ [][NextStore]_vars

(* The in-memory table cache of one process *)
InitTable ==
    /\ now = 0
    /\ exchange_rates = <<>>
    /\ call = IdleCall(0)
    /\ last = NoLast
    /\ PriceInitIdle
    /\ ServiceInitIdle

NextTable ==
    \/ TableFetch
    \/ TableWait

SpecTable == InitTable /\ [][NextTable]_vars

(* One getCurrencyRate call of a client or one updateDailyPrices run, where *)
(* every awaited store call and live-API call completes: axios gives up     *)
(* after its 10 s timeout and a Supabase call resolves with data or an      *)
(* error, so a step that is waiting is eventually taken.                    *)
(* a range with both USD bounds, and one whose USD pair and ZAR pair are     *)
(* both incomplete                                                          *)
LiveRanges ==
    {RangeRow(Null, Null, 10, 20, TRUE, TRUE), RangeRow(Null, 40, 10, Null, TRUE, TRUE)}

InitLive ==
    /\ now = 0
    /\ exchange_rates = <<EarlierRateRow>>
    /\ call = IdleCall(0)
    /\ last = NoLast
    /\ price_ranges \in [Commodities -> LiveRanges]
    /\ current_prices = InitialPrices
    /\ price_history = {}
    /\ price_update_runs = <<>>
    /\ daily = IdleDaily
    /\ task = [c \in Commodities |-> IdleTask]
    /\ manual = IdleManual
    /\ ServiceInitIdle

NextLive ==
    \/ NoOperationYet /\ CallStart
    \/ NoOperationYet /\ DailyStart
    \/ CacheRead
    \/ ApiFetch
    \/ SaveApi
    \/ StaleQuery
    \/ SaveFallback
    \/ CallReturn
    \/ DailyRateResolved
    \/ DailyLoadRanges
    \/ \E c \in Commodities : TaskRead(c)
    \/ \E c \in Commodities : TaskUpsert(c)
    \/ \E c \in Commodities : TaskHistory(c)
    \/ DailyLogRate
    \/ DailyLogRun

SpecLive == InitLive /\ [][NextLive]_vars /\ WF_vars(NextLive)

----------------------------------------------------------------------------
(* Properties of getCurrencyRate *)

InTrace(e) == \E i \in 1..Len(call.trace) : call.trace[i] = e

TierRank(e) ==
    CASE e = "cache" -> 1
      [] e = "api" -> 2
      [] e = "insert_api" -> 3
      [] e = "stale" -> 4
      [] e = "insert_fallback" -> 5

SamePairAsLast ==
    /\ call.pc # "idle"
    /\ call.caller = "client"
    /\ last.tier # "none"
    /\ CallFrom = last.from
    /\ CallTo = last.to
    /\ CallFrom # CallTo

(* C3 as claimed: a second call for the same pair that starts less than 4   *)
(* hours after the first returned makes no live API request, whatever tier  *)
(* answered the first call.                                                 *)
C3_Original ==
    (SamePairAsLast /\ call.startedAt - last.at < FreshHours) => ~InTrace("api")

(* C3 as amended: when the first call inserted an ExchangeRate row for the  *)
(* pair, a second call whose persisted-cache read succeeds less than 4      *)
(* hours after that insert makes no live API request.                       *)
C3_NoSecondFetchAfterInsert ==
    (/\ SamePairAsLast
     /\ last.insertedAt # Null
     /\ call.readOutcome = "ok"
     /\ call.readAt - last.insertedAt < FreshHours) => ~InTrace("api")

(* the second call answered by the row the first call inserted *)
C3_Witness ==
    /\ SamePairAsLast
    /\ last.insertedAt # Null
    /\ call.pc = "done"
    /\ call.tier = "cache"
    /\ call.readRow # <<>>
    /\ call.readRow[1].recorded_at = last.insertedAt

IdentityPairs == {<<usdPadded, USD>>, <<USD, USD>>}

(* C4: when from and to normalise to the same non-empty code the call       *)
(* returns exactly 1 and makes no store read, store write or API request.   *)
C4_IdentityIsOne ==
    (call.pc \in {"done", "thrown"} /\ <<call.fromRaw, call.toRaw>> \in IdentityPairs) =>
        /\ call.pc = "done"
        /\ call.result = RateScale
        /\ call.trace = <<>>
        /\ call.insertedAt = Null

(* " usd " against "USD" answered by the identity tier *)
C4_Witness ==
    /\ call.pc = "done"
    /\ call.fromRaw = usdPadded
    /\ call.toRaw = USD
    /\ call.tier = "identity"
    /\ call.result = RateScale

LastRowIs(from, to, rate, source) ==
    /\ exchange_rates # <<>>
    /\ exchange_rates[Len(exchange_rates)].from_currency = from
    /\ exchange_rates[Len(exchange_rates)].to_currency = to
    /\ exchange_rates[Len(exchange_rates)].rate = rate
    /\ exchange_rates[Len(exchange_rates)].source = source

(* C15 as claimed: whenever getCurrencyRate returns the static fallback      *)
(* value, after the tiers gave nothing or after an exception in the chain,   *)
(* an insert of (from, to, value, fallback) was attempted before the return. *)
C15_Original ==
    (call.pc = "done" /\ call.tier \in {"fallback", "catch"}) =>
        InTrace("insert_fallback")

(* C15 as amended: a value returned by the static fallback tier was          *)
(* preceded by one insert of (from, to, value, fallback), whose row is in    *)
(* the log when the store accepted it; a value returned by the catch block   *)
(* was preceded by no insert.                                                *)
C15_FallbackTierPersists ==
    call.pc = "done" =>
        /\ call.tier = "fallback" =>
               /\ call.trace = <<"cache", "api", "stale", "insert_fallback">>
               /\ call.insertedAt # Null =>
                      LastRowIs(CallFrom, CallTo, call.result, "fallback")
        /\ call.tier = "catch" =>
               /\ ~InTrace("insert_fallback")
               /\ call.insertedAt = Null

(* the fallback tier answered and its row is the last of the log *)
C15_Witness ==
    /\ call.pc = "done"
    /\ call.tier = "fallback"
    /\ call.insertedAt # Null
    /\ LastRowIs(CallFrom, CallTo, call.result, "fallback")

(* C20: a live fetch that returns a rate for the target is followed by one   *)
(* insert of (from, to, rate, api) and the call returns that rate; a         *)
(* response without the target, an error or a timeout gives no rate, no      *)
(* insert with source api, and the unbounded-age query comes next.           *)
C20_LiveTier ==
    /\ call.tier = "api" =>
           /\ call.result = call.apiRate
           /\ call.apiRate > 0
           /\ call.trace = <<"cache", "api", "insert_api">>
           /\ call.insertedAt # Null =>
                  LastRowIs(CallFrom, CallTo, call.apiRate, "api")
    /\ call.apiKind \in {"empty", "error", "timeout"} =>
           /\ call.apiRate = Null
           /\ call.pc = "stale"
    /\ (InTrace("api") /\ call.apiRate = Null) =>
           /\ ~InTrace("insert_api")
           /\ call.tier # "api"
           /\ call.pc \in {"done", "save_fallback"} => InTrace("stale")
    /\ call.apiKind = "ok" =>
           IF call.apiRate # Null THEN call.pc = "save_api" ELSE call.pc = "stale"

(* the live rate was returned and its row is the last of the log *)
C20_Witness ==
    /\ call.pc = "done"
    /\ call.tier = "api"
    /\ call.result = ApiRate
    /\ LastRowIs(CallFrom, CallTo, ApiRate, "api")

(* 1 / 0.054 = 18.518518..., written out for each configured precision *)
ExpectedInverse(p) ==
    CASE p = 6 -> 18518519
      [] p = 2 -> 18520000
      [] p = 0 -> 19000000
      [] OTHER -> 18518519

(* C12: with no persisted row and a failed live fetch, getCurrencyRate for   *)
(* the fallback base pair (ZAR, USD) returns the constant 0.054, and for the *)
(* inverse pair returns 1 / 0.054 rounded to the configured precision        *)
(* (18.518519 for 6); a negative or non-finite precision is replaced by 6.   *)
C12_FallbackPairAndInverse ==
    (call.pc = "done" /\ call.tier \in {"fallback", "catch"}) =>
        /\ (CallFrom = ZAR /\ CallTo = USD) => call.result = 54000
        /\ (CallFrom = USD /\ CallTo = ZAR) =>
               call.result = ExpectedInverse(config.fallbackInversePrecision)

(* USD -> ZAR answered by the static fallback under a non-numeric precision *)
C12_Witness ==
    /\ call.pc = "done"
    /\ call.tier = "fallback"
    /\ CallFrom = USD
    /\ CallTo = ZAR
    /\ config.fallbackInversePrecision = NaN
    /\ call.result = 18518519
    /\ call.trace = <<"cache", "api", "stale", "insert_fallback">>

UnrelatedPair ==
    /\ CallFrom # Empty
    /\ CallTo # Empty
    /\ CallFrom # CallTo
    /\ ~(CallFrom = fallbackBaseFrom /\ CallTo = fallbackBaseTo)
    /\ ~(CallFrom = fallbackBaseTo /\ CallTo = fallbackBaseFrom)

(* C22: for a pair that is neither the fallback base pair, nor its inverse, *)
(* nor an identity pair, a call whose live fetch gave no rate and whose     *)
(* unbounded-age query gave no row returns the raw fallback constant.       *)
C22_UnrelatedPairGetsConstant ==
    (/\ call.pc = "done"
     /\ UnrelatedPair
     /\ InTrace("stale")
     /\ call.apiRate = Null
     /\ ~call.staleFound) => call.result = FallbackRate

(* EUR to USD with an empty log and a failed live fetch: the constant is    *)
(* returned and logged as a fallback row                                    *)
C22_Witness ==
    /\ call.pc = "done"
    /\ UnrelatedPair
    /\ call.tier = "fallback"
    /\ call.trace = <<"cache", "api", "stale", "insert_fallback">>
    /\ call.result = FallbackRate
    /\ call.readRow = <<>>

AnsweredFromRow == call.pc = "done" /\ call.tier \in {"cache", "stale"}

(* C21: a call answered by the persisted-cache tier or by the stale-row     *)
(* tier returns the rate of the most recent ExchangeRate row of its pair    *)
(* and has inserted no row; the persisted-cache tier answers only from a    *)
(* row whose age at the read is strictly less than 4 hours.                 *)
C21_RowTiersReadOnly ==
    AnsweredFromRow =>
        /\ MostRecent(exchange_rates, CallFrom, CallTo) # <<>>
        /\ call.result = MostRecent(exchange_rates, CallFrom, CallTo)[1].rate
        /\ ~InTrace("insert_api")
        /\ ~InTrace("insert_fallback")
        /\ call.insertedAt = Null
        /\ call.tier = "cache" =>
               /\ call.readRow = MostRecent(exchange_rates, CallFrom, CallTo)
               /\ call.readAt - call.readRow[1].recorded_at < FreshHours

(* a call answered by the persisted cache from a row that is 3 hours old    *)
C21_Witness ==
    /\ AnsweredFromRow
    /\ call.tier = "cache"
    /\ call.readRow = <<exchange_rates[Len(exchange_rates)]>>
    /\ call.result = call.readRow[1].rate
    /\ call.readAt - call.readRow[1].recorded_at = FreshHours - 1

TimesInTrace(step) == Cardinality({i \in 1..Len(call.trace) : call.trace[i] = step})

(* the steps of one call: at most one request to the provider, at most one  *)
(* insert, and the resolved rate returned whatever came of the insert       *)
OneRequestOneInsert ==
    /\ TimesInTrace("api") <= 1
    /\ TimesInTrace("insert_api") + TimesInTrace("insert_fallback") <= 1
    /\ TimesInTrace("insert_api") = 1 => TimesInTrace("api") = 1
    /\ call.insertedAt # Null =>
          TimesInTrace("insert_api") + TimesInTrace("insert_fallback") = 1
    /\ TimesInTrace("insert_api") = 1 =>
          call.pc = "done" /\ call.tier = "api" /\ call.result = call.apiRate
                           /\ Truthy(call.result)
    /\ TimesInTrace("insert_fallback") = 1 =>
          call.pc = "done" /\ call.tier = "fallback"
                           /\ call.result = call.fallbackResolved
                           /\ Truthy(call.result)

(* a step of a call adds at most one row to the log, and only a step that   *)
(* is the call's insert adds one, with the source of that insert            *)
InsertIsTheCallsOwn ==
    (exchange_rates' # exchange_rates) =>
        /\ Len(exchange_rates') = Len(exchange_rates) + 1
        /\ SubSeq(exchange_rates', 1, Len(exchange_rates)) = exchange_rates
        /\ call.trace # <<>> /\ call.trace[Len(call.trace)] \in {"api", "stale"}
        /\ \/ /\ call'.trace = Append(call.trace, "insert_api")
              /\ exchange_rates'[Len(exchange_rates')].source = "api"
           \/ /\ call'.trace = Append(call.trace, "insert_fallback")
              /\ exchange_rates'[Len(exchange_rates')].source = "fallback"

(* C38: each getCurrencyRate call makes at most one live API request and at *)
(* most one ExchangeRate insert, never both an insert with source api and   *)
(* one with source fallback; a failure of that insert is swallowed and the  *)
(* call still returns the resolved rate.                                    *)
C38_OneRequestOneInsert == []OneRequestOneInsert /\ [][InsertIsTheCallsOwn]_vars

(* the provider answered, the insert of the api row failed, and the call is *)
(* about to return the provider's rate                                      *)
C38_Witness ==
    /\ call.pc = "done"
    /\ call.trace = <<"cache", "api", "insert_api">>
    /\ call.insertedAt = Null
    /\ call.result = ApiRate
    /\ \A i \in 1..Len(exchange_rates) : exchange_rates[i].recorded_at # now

(* the log with every row marked as written by the live tier *)
AsApiRows(rows) == [i \in 1..Len(rows) |-> [rows[i] EXCEPT !.source = "api"]]

(* the persisted-cache read of the call found a row of its pair younger     *)
(* than 4 hours                                                             *)
ReadFreshRow ==
    /\ call.readOutcome = "ok"
    /\ call.readRow # <<>>
    /\ call.readAt - call.readRow[1].recorded_at < FreshHours

----------------------------------------------------------------------------
(* Properties of getCurrencyRates and of the exchange-rate log *)

NonEmptyTargets ==
    {normaliseCurrencyCode(batch.targets.codes[i]) :
        i \in 1..Len(batch.targets.codes)} \ {Empty}

(* C16: the mapping returned by getCurrencyRates(base, targets) has exactly  *)
(* one key for every distinct normalised non-empty target, none missing and  *)
(* none extra, each mapped to a finite positive number, whatever the         *)
(* persisted-cache, table-fetch and single-pair outcomes; an empty or        *)
(* non-array target list returns an empty mapping with no store or API       *)
(* access.                                                                   *)
C16_MappingComplete ==
    batch.pc \in {"returned", "thrown"} =>
        /\ batch.pc = "returned"
        /\ IF ~batch.targets.isArray \/ batch.targets.codes = <<>>
           THEN /\ batch.result = {}
                /\ batch.storeAccess = 0
                /\ batch.tableFetches = 0
                /\ call.n = 0
           ELSE /\ Keys(batch.result) = NonEmptyTargets
                /\ \A r \in batch.result : r.rate > 0

InSeq(e, seq) == \E i \in 1..Len(seq) : seq[i] = e

SuppliedByTable(target) ==
    batch.table # <<>> /\ IsNumber(batch.table[1][target])

(* the single-pair chain is running for a target of the batch *)
ChainRunning == call.caller = "batch" /\ call.pc # "idle"

(* C23: one getCurrencyRates call asks for the rate table at most once, and *)
(* only when every per-target persisted-cache lookup has completed and at   *)
(* least one target missed; the single-pair chain runs only after that, for *)
(* a target that missed the persisted cache and that the table did not      *)
(* supply, and never for a target that already has a rate in the result.    *)
C23_TableOnceThenChains ==
    /\ batch.tableFetches <= 1
    /\ batch.apiRequests <= batch.tableFetches
    /\ (batch.tableFetches = 1 \/ batch.pc = "table") =>
           /\ batch.looked = {batch.distinct[i] : i \in 1..Len(batch.distinct)}
           /\ batch.missing # <<>>
    /\ ChainRunning =>
           /\ batch.tableFetches = 1
           /\ InSeq(CallTo, batch.missing)
           /\ ~SuppliedByTable(CallTo)
           /\ CallTo \notin Keys(batch.result)
    /\ call.n <= Cardinality({t \in batch.looked :
                                 InSeq(t, batch.missing) /\ ~SuppliedByTable(t)})

(* EUR and ZAR both missed the persisted cache, the table supplied EUR only *)
(* and the chain ran once, for ZAR                                          *)
C23_Witness ==
    /\ batch.pc = "returned"
    /\ batch.missing = <<EUR, ZAR>> \/ batch.missing = <<ZAR, EUR>>
    /\ batch.tableFetches = 1
    /\ SuppliedByTable(EUR)
    /\ ~SuppliedByTable(ZAR)
    /\ call.n = 1
    /\ Keys(batch.result) = {EUR, ZAR}

(* the targets that missed the persisted cache and have a number in the     *)
(* table that came back                                                     *)
Supplied == {t \in batch.looked : InSeq(t, batch.missing) /\ SuppliedByTable(t)}

BatchRows == {i \in 1..Len(exchange_rates) : exchange_rates[i].source = "api_batch"}

AfterTable == batch.pc \in {"pairs", "returned"} /\ batch.tableFetches = 1

(* C24: every target the rate table satisfies gets one insert (base,        *)
(* target, table rate, api_batch) that the call does not wait for: the      *)
(* call can return while inserts are pending.  The mapping holds the table  *)
(* rate of each such target whether its insert is pending, has succeeded    *)
(* or has failed, and no single-pair chain of the call reads a pair that    *)
(* one of these inserts writes.                                             *)
C24_BatchInsertsDetached ==
    /\ {p.target : p \in batch.pending} \subseteq Supplied
    /\ \A p \in batch.pending : p.rate = batch.table[1][p.target]
    /\ \A i \in BatchRows :
           /\ exchange_rates[i].from_currency = batch.base
           /\ exchange_rates[i].to_currency \in Supplied
           /\ exchange_rates[i].to_currency \notin {p.target : p \in batch.pending}
           /\ exchange_rates[i].rate = batch.table[1][exchange_rates[i].to_currency]
    /\ \A i, j \in BatchRows :
           exchange_rates[i].to_currency = exchange_rates[j].to_currency => i = j
    /\ AfterTable =>
           /\ batch.storeAccess = Cardinality(batch.looked) + Cardinality(Supplied)
           /\ \A t \in Supplied :
                  [target |-> t, rate |-> batch.table[1][t]] \in batch.result
    /\ ChainRunning => CallTo \notin Supplied

(* the call has returned the table's EUR rate while the EUR insert is still *)
(* pending                                                                  *)
C24_Witness ==
    /\ batch.pc = "returned"
    /\ EUR \in Supplied
    /\ \E p \in batch.pending : p.target = EUR
    /\ [target |-> EUR, rate |-> batch.table[1][EUR]] \in batch.result
    /\ BatchRows = {}

CacheKeys(cache) == {e.key : e \in cache}

TableKey == normaliseCurrencyCode(tableCall.base)

(* the entry the last fetchRateTable call found for its base *)
FoundEntry == {e \in tableCall.before : e.key = TableKey}

FoundFresh == \E e \in FoundEntry : tableCall.at - e.fetchedAt < RateTableTtlMin

OtherEntries(cache) == {e \in cache : e.key # TableKey}

(* C25: the table cache is keyed by the normalised base.  A fetchRateTable  *)
(* call made less than the TTL after the fetch that filled the entry of its *)
(* base returns the cached table and sends no request; a call at or after   *)
(* the TTL, or with no entry, sends a request.  A successful request        *)
(* replaces the entry of that base only; a failed request returns nothing   *)
(* and leaves the cache as it was; no entry is ever removed.                *)
C25_TableCache ==
    /\ \A e, f \in rateTableCache : e.key = f.key => e = f
    /\ \A e \in rateTableCache : e.key = normaliseCurrencyCode(e.key)
    /\ tableCall.n > 0 =>
           /\ CacheKeys(tableCall.before) \subseteq CacheKeys(rateTableCache)
           /\ OtherEntries(rateTableCache) = OtherEntries(tableCall.before)
           /\ FoundFresh =>
                  /\ ~tableCall.requested
                  /\ \E e \in FoundEntry : tableCall.rates = <<e.rates>>
                  /\ rateTableCache = tableCall.before
           /\ ~FoundFresh => tableCall.requested
           /\ (tableCall.requested /\ tableCall.kind = "ok") =>
                  /\ tableCall.rates = tableCall.response
                  /\ [key |-> TableKey, fetchedAt |-> tableCall.at,
                      rates |-> tableCall.response[1]] \in rateTableCache
           /\ (tableCall.requested /\ tableCall.kind # "ok") =>
                  /\ tableCall.rates = <<>>
                  /\ rateTableCache = tableCall.before

(* a call exactly one TTL after the fetch that filled the USD entry sent a  *)
(* request and replaced that entry, and the ZAR entry is as it was          *)
C25_Witness ==
    /\ tableCall.n = MaxFetches
    /\ TableKey = USD
    /\ tableCall.base = usdLower
    /\ \E e \in FoundEntry : tableCall.at - e.fetchedAt = RateTableTtlMin
    /\ tableCall.requested
    /\ tableCall.kind = "ok"
    /\ \E e \in rateTableCache : e.key = ZAR
    /\ \E e \in rateTableCache : e.key = USD /\ e.fetchedAt = tableCall.at

(* C17: every row of the exchange-rate log, whichever operation inserted it  *)
(* (api, fallback, api_batch, daily_update), has rate > 0.                   *)
C17_RatesPositive ==
    \A i \in 1..Len(exchange_rates) : exchange_rates[i].rate > 0

----------------------------------------------------------------------------
(* Properties of updateDailyPrices *)

RangeIsActive(c) == price_ranges[c].is_active /\ price_ranges[c].commodity_active

RangeIsIncomplete(c) ==
    /\ ~(price_ranges[c].min_price_usd >= 0 /\ price_ranges[c].max_price_usd >= 0)
    /\ ~(price_ranges[c].min_price_zar >= 0 /\ price_ranges[c].max_price_zar >= 0)

CountActive == Cardinality({c \in Commodities : RangeIsActive(c)})
CountIncomplete ==
    Cardinality({c \in Commodities : RangeIsActive(c) /\ RangeIsIncomplete(c)})
Attempted == {c \in Commodities : task[c].pc \notin {"none", "SKIPPED"}}

InList(list, c) == \E i \in 1..Len(list) : list[i].commodityId = c

WritesOk(c) == task[c].upsertOutcome = "ok" /\ task[c].historyOutcome = "ok"

HistoryRowOf(c) ==
    \E h \in price_history :
        /\ h.commodity_id = c
        /\ h.run = daily.run
        /\ h.price_zar = task[c].price_zar
        /\ h.price_usd = task[c].price_usd

(* C6: a store error on the CurrentPrice upsert or the PriceHistory insert  *)
(* of one commodity stops no other commodity: every non-skipped commodity   *)
(* gets its upsert, and its insert when the upsert passed; one whose writes *)
(* passed is in CurrentPrice and PriceHistory, one whose write failed is in *)
(* failures; the PriceUpdateRun insert is still issued and the call returns *)
(* success = true instead of throwing.                                      *)
C6_FailureIsolated ==
    (daily.pc \in {"returned", "thrown"} /\ daily.loaded /\ daily.rateOutcome # "throw") =>
        /\ daily.pc = "returned"
        /\ daily.result[1].success
        /\ daily.runOutcome # "none"
        /\ daily.runOutcome = "ok" => Len(price_update_runs) = 1
        /\ \A c \in Commodities :
              (RangeIsActive(c) /\ ~RangeIsIncomplete(c)) =>
                  /\ task[c].upsertOutcome # "none"
                  /\ task[c].upsertOutcome = "ok" => task[c].historyOutcome # "none"
                  /\ IF WritesOk(c)
                     THEN /\ task[c].pc = "PERSISTED"
                          /\ current_prices[c].price_zar = task[c].price_zar
                          /\ HistoryRowOf(c)
                          /\ ~InList(daily.result[1].failures, c)
                     ELSE /\ task[c].pc = "FAILED"
                          /\ InList(daily.result[1].failures, c)

(* one commodity failed on a write, another was persisted, the run row is   *)
(* written and the call returned                                            *)
C6_Witness ==
    /\ daily.pc = "returned"
    /\ Len(price_update_runs) = 1
    /\ \E c, d \in Commodities :
          /\ task[c].pc = "FAILED"
          /\ task[d].pc = "PERSISTED"
          /\ HistoryRowOf(d)
          /\ InList(daily.result[1].failures, c)

(* C7: the daily_update ExchangeRate insert and the PriceUpdateRun insert   *)
(* of a run happen only after every per-commodity task of the run is        *)
(* PERSISTED, FAILED or SKIPPED, so no CurrentPrice or PriceHistory write   *)
(* of the run follows its run record.                                       *)
C7_RunRecordAfterAllSettled ==
    (\/ daily.pc \in {"log_run", "returned"}
     \/ daily.rateOutcome # "none"
     \/ daily.runOutcome # "none"
     \/ price_update_runs # <<>>
     \/ \E i \in 1..Len(exchange_rates) : exchange_rates[i].source = "daily_update") =>
        \A c \in Commodities :
            RangeIsActive(c) => task[c].pc \in {"PERSISTED", "FAILED", "SKIPPED"}

(* the rate row is logged and the run insert is pending, after two tasks    *)
(* ran to the end                                                           *)
C7_Witness ==
    /\ daily.pc = "log_run"
    /\ \E i \in 1..Len(exchange_rates) : exchange_rates[i].source = "daily_update"
    /\ Cardinality({c \in Commodities : task[c].pc \in {"PERSISTED", "FAILED"}}) >= 2

Untouched(c) ==
    /\ task[c].upsertOutcome = "none"
    /\ task[c].historyOutcome = "none"
    /\ task[c].change = Null
    /\ current_prices[c] = InitialPrices[c]
    /\ ~\E h \in price_history : h.commodity_id = c
    /\ ~InList(daily.failures, c)

(* C26: once the ranges are loaded, an active range with neither a complete *)
(* finite USD pair nor a complete finite ZAR pair is in skipped, gets no    *)
(* CurrentPrice read, no CurrentPrice upsert and no PriceHistory insert, is *)
(* not in failures and not counted as updated, and the complete ranges are  *)
(* still processed; a range that is inactive or whose commodity is inactive *)
(* is neither counted, nor skipped, nor written.                            *)
C26_SkippedAndExcluded ==
    daily.loaded =>
        /\ \A c \in Commodities :
              (RangeIsActive(c) /\ RangeIsIncomplete(c)) =>
                  /\ task[c].pc = "SKIPPED"
                  /\ InList(daily.skipped, c)
                  /\ Untouched(c)
        /\ \A c \in Commodities :
              ~RangeIsActive(c) =>
                  /\ task[c] = IdleTask
                  /\ c \notin daily.activeRanges
                  /\ ~InList(daily.skipped, c)
                  /\ Untouched(c)
        /\ \A c \in Commodities :
              (RangeIsActive(c) /\ ~RangeIsIncomplete(c)) =>
                  /\ task[c].pc \notin {"none", "SKIPPED"}
                  /\ ~InList(daily.skipped, c)
        /\ daily.updatedCount =
              Cardinality({c \in Commodities : task[c].pc = "PERSISTED"})
        /\ daily.pc = "returned" =>
              /\ daily.result[1].skipped = daily.skipped
              /\ daily.result[1].updated = daily.updatedCount
              /\ daily.result[1].total = CountActive

(* a run that skipped one commodity and persisted the other has returned *)
C26_Witness ==
    /\ daily.pc = "returned"
    /\ \E c, d \in Commodities :
          /\ RangeIsActive(c)
          /\ RangeIsIncomplete(c)
          /\ task[c].pc = "SKIPPED"
          /\ InList(daily.result[1].skipped, c)
          /\ task[d].pc = "PERSISTED"
          /\ daily.result[1].updated = 1

UsdPairFinite(c) ==
    price_ranges[c].min_price_usd >= 0 /\ price_ranges[c].max_price_usd >= 0

(* the chosen bounds of a commodity in units of 1e-4 / RateScale *)
LowerBound(c) ==
    IF UsdPairFinite(c) THEN price_ranges[c].min_price_usd * RateScale
    ELSE price_ranges[c].min_price_zar * daily.zarToUsdRate

UpperBound(c) ==
    IF UsdPairFinite(c) THEN price_ranges[c].max_price_usd * RateScale
    ELSE price_ranges[c].max_price_zar * daily.zarToUsdRate

(* the price_usd values the run has written for a commodity *)
WrittenUsd(c) ==
    (IF task[c].upsertOutcome = "ok" THEN {current_prices[c].price_usd} ELSE {})
        \cup {h.price_usd : h \in {g \in price_history :
                                      g.commodity_id = c /\ g.run = daily.run}}

BoundsChosen(c) ==
    (RangeIsActive(c) /\ ~RangeIsIncomplete(c) /\ daily.loaded) =>
        /\ task[c].bounds # <<>>
        /\ task[c].bounds[1].kind = IF UsdPairFinite(c) THEN "usd" ELSE "zar"
        /\ task[c].bounds[1].den \in {1, RateScale}
        /\ task[c].bounds[1].minN * (RateScale \div task[c].bounds[1].den) = LowerBound(c)
        /\ task[c].bounds[1].maxN * (RateScale \div task[c].bounds[1].den) = UpperBound(c)
        /\ WrittenUsd(c) \subseteq {task[c].price_usd}

(* C27 as claimed: the bounds of a non-skipped range are the stored USD     *)
(* pair when both are finite and otherwise the ZAR pair times the rate of   *)
(* the run, and every price_usd written to CurrentPrice or PriceHistory     *)
(* lies between the chosen lower and upper bound.                           *)
C27_Original ==
    \A c \in Commodities :
        /\ BoundsChosen(c)
        /\ \A v \in WrittenUsd(c) :
               LowerBound(c) <= v * RateScale /\ v * RateScale <= UpperBound(c)

(* C27 as amended: the bounds are chosen as claimed; the written price_usd  *)
(* is a value of the range rounded to 4 decimals, so it lies within 0.00005 *)
(* of the interval from lower to upper bound, and inside the interval when  *)
(* the bounds are the stored USD pair, which has at most 4 decimals.        *)
C27_WithinRoundedBounds ==
    \A c \in Commodities :
        /\ BoundsChosen(c)
        /\ \A v \in WrittenUsd(c) :
               /\ 2 * LowerBound(c) - RateScale <= 2 * v * RateScale
               /\ 2 * v * RateScale <= 2 * UpperBound(c) + RateScale
               /\ UsdPairFinite(c) =>
                      /\ price_ranges[c].min_price_usd <= v
                      /\ v <= price_ranges[c].max_price_usd

(* one commodity with both pairs got a price inside its USD pair, another   *)
(* with the ZAR pair only got a price below its derived lower bound         *)
C27_Witness ==
    /\ daily.pc = "returned"
    /\ \E c, d \in Commodities :
          /\ UsdPairFinite(c)
          /\ price_ranges[c].min_price_zar >= 0
          /\ task[c].pc = "PERSISTED"
          /\ current_prices[c].price_usd \in WrittenUsd(c)
          /\ ~UsdPairFinite(d)
          /\ task[d].pc = "PERSISTED"
          /\ \E v \in WrittenUsd(d) : v * RateScale < LowerBound(d)

(* price_usd times 1 / rate, the inverse taken to 6 decimals and the        *)
(* product to 4                                                             *)
ZarOfUsd(priceUsd, rate) == RoundDiv(priceUsd * InverseToFixed(rate, 6), RateScale)

RunHistory == {h \in price_history : h.run = daily.run}

DailyRateRows ==
    {i \in 1..Len(exchange_rates) : exchange_rates[i].source = "daily_update"}

RowsCarryRunRate ==
    /\ \A c \in Commodities :
          task[c].upsertOutcome = "ok" =>
              /\ current_prices[c].exchange_rate = daily.zarToUsdRate
              /\ current_prices[c].price_zar =
                     ZarOfUsd(current_prices[c].price_usd, daily.zarToUsdRate)
    /\ \A h \in RunHistory :
          /\ h.exchange_rate = daily.zarToUsdRate
          /\ h.price_zar = ZarOfUsd(h.price_usd, daily.zarToUsdRate)
    /\ \A i \in DailyRateRows :
          /\ exchange_rates[i].rate = daily.zarToUsdRate
          /\ exchange_rates[i].from_currency = ZAR
          /\ exchange_rates[i].to_currency = USD
    /\ call.n <= 1
    /\ daily.pc \notin {"idle", "rate"} => (call.n = 1 /\ call.pc = "idle")

(* the rate of the run is set once, to the value getCurrencyRate returned *)
RateSetOnce ==
    daily'.zarToUsdRate # daily.zarToUsdRate =>
        /\ daily.pc = "rate"
        /\ daily.zarToUsdRate = Null
        /\ call.pc = "done"
        /\ daily'.zarToUsdRate = call.result

(* C28: every CurrentPrice and PriceHistory row a run writes carries one    *)
(* exchange_rate, the ZAR->USD rate the run resolved at its start, which is *)
(* also the rate of its daily_update row; getCurrencyRate is called once    *)
(* per run; in each written row price_zar is price_usd converted with that  *)
(* rate.                                                                    *)
C28_OneRatePerRun == []RowsCarryRunRate /\ [][RateSetOnce]_vars

(* two commodities written at the live rate and the daily_update row logged *)
C28_Witness ==
    /\ daily.pc = "returned"
    /\ daily.zarToUsdRate = ApiRate
    /\ Cardinality(RunHistory) = NumCommodities
    /\ \A c \in Commodities : current_prices[c].exchange_rate = ApiRate
    /\ DailyRateRows # {}

RateInsertInOrder ==
    /\ ~daily.loaded => daily.rateOutcome = "none"
    /\ (daily.loaded /\ daily.pc # "fanout") => daily.rateOutcome # "none"
    /\ daily.rateOutcome # "none" =>
           \A c \in daily.activeRanges : task[c].pc \in {"PERSISTED", "FAILED", "SKIPPED"}
    /\ daily.runOutcome # "none" => daily.rateOutcome \in {"ok", "error"}
    /\ price_update_runs # <<>> => daily.rateOutcome \in {"ok", "error"}
    /\ Cardinality(DailyRateRows) = IF daily.rateOutcome = "ok" THEN 1 ELSE 0

RateInsertOnce ==
    daily.rateOutcome # "none" =>
        /\ daily'.rateOutcome = daily.rateOutcome
        /\ exchange_rates' = exchange_rates

(* C29: a run that got past range loading attempts one daily_update insert  *)
(* (ZAR->USD), after every per-commodity task has settled and before the    *)
(* PriceUpdateRun insert, and never a second one; so it does when every     *)
(* commodity failed or was skipped.                                         *)
C29_OneDailyRateInsert == []RateInsertInOrder /\ [][RateInsertOnce]_vars

(* a run in which one commodity failed and the other was skipped has logged *)
(* its rate row and is about to insert its run record                       *)
C29_Witness ==
    /\ daily.pc = "log_run"
    /\ daily.updatedCount = 0
    /\ \E c, d \in daily.activeRanges : task[c].pc = "FAILED" /\ task[d].pc = "SKIPPED"
    /\ Cardinality(DailyRateRows) = 1
    /\ price_update_runs = <<>>

(* the run has issued its daily_update insert, whatever came of it *)
LoggingBegun == daily.loaded /\ daily.rateOutcome # "none"

(* the result the run returns when both logging inserts pass *)
ResultOfCounts ==
    [success |-> TRUE,
     updated |-> daily.updatedCount,
     total |-> Cardinality(daily.activeRanges),
     skipped |-> daily.skipped,
     failures |-> daily.failures]

LoggingOutcomeKept ==
    LoggingBegun =>
        /\ daily.pc # "thrown"
        /\ daily.pc = "returned" => daily.result = <<ResultOfCounts>>

(* a logging step leaves the counts and the price rows as they were *)
LoggingKeepsWrites ==
    (daily.pc \in {"fanout", "log_run"} /\ AllSettled(daily.activeRanges)
       /\ daily'.pc \in {"log_run", "returned", "thrown"}) =>
        /\ current_prices' = current_prices
        /\ price_history' = price_history
        /\ daily'.updatedCount = daily.updatedCount
        /\ daily'.skipped = daily.skipped
        /\ daily'.failures = daily.failures
        /\ daily'.activeRanges = daily.activeRanges

(* C30: a store error or a thrown exception on the daily_update            *)
(* ExchangeRate insert or on the PriceUpdateRun insert does not change the  *)
(* outcome of updateDailyPrices: the call does not throw, it returns        *)
(* success = true with the updated, total, skipped and failures of the run, *)
(* and the CurrentPrice and PriceHistory rows already written stay written. *)
C30_LoggingFailureHarmless == []LoggingOutcomeKept /\ [][LoggingKeepsWrites]_vars

(* C31: the PriceUpdateRun row written by a run of updateDailyPrices has   *)
(* updated_commodities equal to the updated count the run returns, status   *)
(* success exactly when that count is above 0 and no_updates otherwise, and *)
(* the trigger_source and triggered_by the caller passed: cron with a null  *)
(* operator for the scheduler, manual for the operator's run.               *)
C31_RunRowMatchesResult ==
    /\ Len(price_update_runs) <= 1
    /\ (price_update_runs # <<>>) =>
          /\ daily.pc = "returned"
          /\ daily.runOutcome = "ok"
          /\ \E row \in {price_update_runs[1]}, result \in {daily.result[1]} :
                /\ row.updated_commodities = result.updated
                /\ row.total_commodities = result.total
                /\ row.status = "success" <=> result.updated > 0
                /\ row.status = "no_updates" <=> result.updated = 0
                /\ row.trigger_source = daily.triggerSource
                /\ row.triggered_by = daily.triggeredBy
                /\ [source |-> row.trigger_source, by |-> row.triggered_by] \in Triggers
    /\ (daily.pc = "returned" /\ daily.runOutcome = "ok") => price_update_runs # <<>>

(* the scheduler's run updated nothing and wrote a no_updates row with a    *)
(* null operator                                                            *)
C31_Witness ==
    /\ daily.pc = "returned"
    /\ Len(price_update_runs) = 1
    /\ price_update_runs[1].status = "no_updates"
    /\ price_update_runs[1].trigger_source = "cron"
    /\ price_update_runs[1].triggered_by = Null
    /\ daily.result[1].updated = 0
    /\ daily.activeRanges # {}

TimesInList(list, c) == Cardinality({i \in 1..Len(list) : list[i].commodityId = c})

EndedAs(c) ==
    {s \in Terminal :
        \/ s = "PERSISTED" /\ task[c].pc = "PERSISTED"
        \/ s = "FAILED" /\ InList(daily.failures, c)
        \/ s = "SKIPPED" /\ InList(daily.skipped, c)}

(* C34: for every return of updateDailyPrices and every interleaving of its *)
(* per-commodity tasks each active range has ended in exactly one of        *)
(* PERSISTED, FAILED and SKIPPED, so updated + number of failures + number  *)
(* of skipped is the number of active ranges, no commodity id is in both    *)
(* skipped and failures, and the updated counter has lost no increment.     *)
C34_OneTerminalStateEach ==
    /\ daily.updatedCount = Cardinality({c \in Commodities : task[c].pc = "PERSISTED"})
    /\ (daily.pc = "returned") =>
          \E result \in {daily.result[1]} :
             /\ \A c \in daily.activeRanges :
                   /\ Cardinality(EndedAs(c)) = 1
                   /\ task[c].pc \in EndedAs(c)
                   /\ TimesInList(result.failures, c) + TimesInList(result.skipped, c) <= 1
             /\ \A c \in Commodities \ daily.activeRanges :
                   ~InList(result.failures, c) /\ ~InList(result.skipped, c)
             /\ result.updated + Len(result.failures) + Len(result.skipped)
                  = Cardinality(daily.activeRanges)
             /\ result.total = Cardinality(daily.activeRanges)
             /\ result.updated = Cardinality({c \in daily.activeRanges :
                                                 task[c].pc = "PERSISTED"})

(* a run over two active ranges returned with both persisted and the       *)
(* counter at 2                                                             *)
C34_Witness ==
    /\ daily.pc = "returned"
    /\ daily.result[1].updated = 2
    /\ \E c, d \in daily.activeRanges :
          /\ c # d
          /\ task[c].pc = "PERSISTED"
          /\ task[d].pc = "PERSISTED"

HistoryRowsOf(c) == {h \in price_history : h.commodity_id = c /\ h.run = daily.run}

(* C35: within one per-commodity update the CurrentPrice upsert precedes    *)
(* the PriceHistory insert: if the upsert returns an error no PriceHistory  *)
(* row is inserted for that commodity in that run; a commodity is counted   *)
(* as updated only if both its CurrentPrice upsert and its PriceHistory     *)
(* insert succeeded with the same price_zar, price_usd and exchange_rate;   *)
(* a commodity listed in failures has no new PriceHistory row of that run.  *)
C35_UpsertBeforeHistory ==
    \A c \in Commodities :
        /\ task[c].historyOutcome # "none" => task[c].upsertOutcome = "ok"
        /\ task[c].upsertOutcome # "ok" => HistoryRowsOf(c) = {}
        /\ InList(daily.failures, c) => HistoryRowsOf(c) = {}
        /\ task[c].pc = "PERSISTED" =>
              /\ task[c].upsertOutcome = "ok"
              /\ task[c].historyOutcome = "ok"
              /\ ~InList(daily.failures, c)
              /\ HistoryRowsOf(c) =
                    {[commodity_id |-> c,
                      price_zar |-> current_prices[c].price_zar,
                      price_usd |-> current_prices[c].price_usd,
                      exchange_rate |-> current_prices[c].exchange_rate,
                      run |-> daily.run]}
        /\ HistoryRowsOf(c) # {} => task[c].pc = "PERSISTED"

(* one commodity failed on its upsert and has no history row, another       *)
(* failed on its history insert after its upsert, a run that returned       *)
C35_Witness ==
    /\ daily.pc = "returned"
    /\ \E c, d \in daily.activeRanges :
          /\ task[c].upsertOutcome = "failed"
          /\ task[c].historyOutcome = "none"
          /\ InList(daily.result[1].failures, c)
          /\ task[d].upsertOutcome = "ok"
          /\ task[d].historyOutcome = "failed"
          /\ InList(daily.result[1].failures, d)
          /\ HistoryRowsOf(d) = {}

----------------------------------------------------------------------------
(* Properties of updateCommodityPrice and updatePriceRange *)

ManualEnded == manual.pc \in {"returned", "thrown"}

OneFinitePrice ==
    \/ manual.input.priceUsd >= 0 /\ manual.input.priceZar < 0
    \/ manual.input.priceUsd < 0 /\ manual.input.priceZar >= 0

RunRowOfManual ==
    \E i \in 1..Len(price_update_runs) :
        /\ price_update_runs[i].trigger_source = "manual_single"
        /\ price_update_runs[i].run = ManualRun

(* C8: with exactly one finite price, a resolved rate and a CurrentPrice    *)
(* upsert and a PriceHistory insert that succeed, updateCommodityPrice      *)
(* writes CurrentPrice, PriceHistory and a manual_single PriceUpdateRun row *)
(* and returns its result; it does not throw after the writes.              *)
C8_ManualUpdateReturns ==
    (/\ manual.op = "price"
     /\ ManualEnded
     /\ OneFinitePrice
     /\ manual.upsertOutcome = "ok"
     /\ manual.historyOutcome = "ok") =>
        /\ manual.writes = <<"current_prices", "price_history", "price_update_runs">>
        /\ manual.runOutcome = "ok" => RunRowOfManual
        /\ manual.pc = "returned"

RangeInputComplete ==
    \/ manual.input.minPriceUsd >= 0 /\ manual.input.maxPriceUsd >= 0
    \/ manual.input.minPriceZar >= 0 /\ manual.input.maxPriceZar >= 0

RangeWritten == \E i \in 1..Len(manual.writes) : manual.writes[i] = "price_ranges"

(* C9: updatePriceRange fails and performs no PriceRange write whenever,    *)
(* after deriving the missing pair with the current rate, min >= max in USD *)
(* or in ZAR, and also when neither pair is completely supplied.            *)
C9_RangeRejected ==
    (/\ manual.op = "range"
     /\ manual.pc # "rate"
     /\ \/ ~RangeInputComplete
        \/ /\ manual.derived # <<>>
           /\ \/ manual.derived[1].minPriceUsd >= manual.derived[1].maxPriceUsd
              \/ manual.derived[1].minPriceZar >= manual.derived[1].maxPriceZar) =>
        /\ manual.pc = "thrown"
        /\ ~RangeWritten
        /\ manual.upsertOutcome = "none"
        /\ price_ranges[manual.commodityId].updated_by = Null

(* a ZAR pair with min < max whose derived USD bounds round to the same     *)
(* value is rejected without a write                                        *)
C9_Witness ==
    /\ manual.op = "range"
    /\ manual.pc = "thrown"
    /\ manual.derived # <<>>
    /\ manual.derived[1].minPriceZar < manual.derived[1].maxPriceZar
    /\ manual.derived[1].minPriceUsd >= manual.derived[1].maxPriceUsd
    /\ ~RangeWritten

(* C10: updateCommodityPrice throws and writes nothing to CurrentPrice,     *)
(* PriceHistory or PriceUpdateRun when neither priceUsd nor priceZar is a   *)
(* finite number.                                                           *)
C10_NoPriceNoWrite ==
    (/\ manual.op = "price"
     /\ manual.pc # "rate"
     /\ manual.input.priceUsd < 0
     /\ manual.input.priceZar < 0) =>
        /\ manual.pc = "thrown"
        /\ manual.writes = <<>>
        /\ price_history = {}
        /\ price_update_runs = <<>>
        /\ current_prices = InitialPrices

(* a non-numeric priceUsd and no priceZar, rejected after the rate came back *)
C10_Witness ==
    /\ manual.op = "price"
    /\ manual.pc = "thrown"
    /\ manual.input.priceUsd = NaN
    /\ manual.input.priceZar = Null
    /\ manual.zarToUsdRate # Null
    /\ manual.error = "A price must be provided in USD or ZAR"

(* the rows updateCommodityPrice has written so far *)
ManualPriceRows ==
    {[price_zar |-> h.price_zar, price_usd |-> h.price_usd,
      exchange_rate |-> h.exchange_rate] : h \in {g \in price_history : g.run = ManualRun}}
    \cup (IF manual.op = "price" /\ manual.upsertOutcome = "ok"
          THEN {[price_zar |-> current_prices[manual.commodityId].price_zar,
                 price_usd |-> current_prices[manual.commodityId].price_usd,
                 exchange_rate |-> current_prices[manual.commodityId].exchange_rate]}
          ELSE {})

(* price_usd is the supplied ZAR price times the rate, to 4 decimals *)
UsdFromZar(w) ==
    /\ manual.input.priceZar >= 0
    /\ w.price_zar = ToFixed4(manual.input.priceZar)
    /\ w.price_usd = RoundDiv(manual.input.priceZar * manual.zarToUsdRate,
                              RateScale * InputScale)

(* price_zar is the supplied USD price times 1 / rate to 6 decimals, to 4   *)
(* decimals                                                                 *)
ZarFromUsd(w) ==
    /\ manual.input.priceUsd >= 0
    /\ w.price_usd = ToFixed4(manual.input.priceUsd)
    /\ w.price_zar = RoundDiv(manual.input.priceUsd
                                 * InverseToFixed(manual.zarToUsdRate, 6),
                              RateScale * InputScale)

BothSupplied == manual.input.priceUsd >= 0 /\ manual.input.priceZar >= 0

(* C32: in every CurrentPrice and PriceHistory row written by               *)
(* updateCommodityPrice one price is derived from the other with the        *)
(* resolved ZAR->USD rate (price_usd from price_zar when ZAR was supplied,  *)
(* price_zar from price_usd and 1 / rate to 6 decimals when USD was         *)
(* supplied), and the row's exchange_rate is that rate; a call supplying    *)
(* both prices does not store two independent values.                       *)
C32_OnePriceDerived ==
    (manual.op = "price") =>
        \A w \in ManualPriceRows :
            /\ w.exchange_rate = manual.zarToUsdRate
            /\ UsdFromZar(w) \/ ZarFromUsd(w)
            /\ manual.input.priceUsd < 0 => UsdFromZar(w)
            /\ manual.input.priceZar < 0 => ZarFromUsd(w)

UsdPairSupplied == manual.input.minPriceUsd >= 0 /\ manual.input.maxPriceUsd >= 0

ZarPairSupplied == manual.input.minPriceZar >= 0 /\ manual.input.maxPriceZar >= 0

(* the stored ZAR pair is the supplied USD pair times 1 / rate to 6 decimals *)
ZarPairFromUsd(row) ==
    /\ row.min_price_usd = manual.input.minPriceUsd
    /\ row.max_price_usd = manual.input.maxPriceUsd
    /\ row.min_price_zar = RoundDiv(manual.input.minPriceUsd
                                      * InverseToFixed(manual.zarToUsdRate, 6), RateScale)
    /\ row.max_price_zar = RoundDiv(manual.input.maxPriceUsd
                                      * InverseToFixed(manual.zarToUsdRate, 6), RateScale)

(* the stored USD pair is the supplied ZAR pair times the rate *)
UsdPairFromZar(row) ==
    /\ row.min_price_zar = manual.input.minPriceZar
    /\ row.max_price_zar = manual.input.maxPriceZar
    /\ row.min_price_usd = RoundDiv(manual.input.minPriceZar * manual.zarToUsdRate,
                                    RateScale)
    /\ row.max_price_usd = RoundDiv(manual.input.maxPriceZar * manual.zarToUsdRate,
                                    RateScale)

(* C33: every PriceRange row written by a successful updatePriceRange has   *)
(* min_price_usd < max_price_usd and min_price_zar < max_price_zar,         *)
(* is_active = true and updated_by set to the operator, and the pair that   *)
(* was not supplied is derived from the supplied one with the rate resolved *)
(* in that call; the USD pair is authoritative when both are supplied.      *)
C33_RangeRowWellFormed ==
    (manual.op = "range" /\ manual.upsertOutcome = "ok") =>
        \E row \in {price_ranges[manual.commodityId]} :
            /\ manual.pc = "returned"
            /\ row.min_price_usd < row.max_price_usd
            /\ row.min_price_zar < row.max_price_zar
            /\ row.min_price_usd >= 0 /\ row.min_price_zar >= 0
            /\ row.is_active
            /\ row.updated_by = manual.operator
            /\ manual.operator = OperatorId
            /\ Truthy(manual.zarToUsdRate)
            /\ IF UsdPairSupplied THEN ZarPairFromUsd(row)
               ELSE ZarPairSupplied /\ UsdPairFromZar(row)

(* a call that supplied both pairs returned: the stored ZAR pair is the one *)
(* derived from the USD pair, not the one supplied                          *)
C33_Witness ==
    /\ manual.op = "range"
    /\ manual.pc = "returned"
    /\ UsdPairSupplied
    /\ ZarPairSupplied
    /\ manual.input.minPriceZar < manual.input.maxPriceZar
    /\ price_ranges[manual.commodityId].min_price_zar # manual.input.minPriceZar
    /\ price_ranges[manual.commodityId].updated_by = OperatorId

----------------------------------------------------------------------------
(* Properties of a run of updateDailyPrices overlapping updateCommodityPrice *)

(* the row the run's task of c upserts *)
TaskRow(c) ==
    [price_zar |-> task[c].price_zar, price_usd |-> task[c].price_usd,
     exchange_rate |-> daily.zarToUsdRate, change_24h_percent |-> task[c].change]

(* the row the operator's update upserts *)
ManualRow ==
    [price_zar |-> manual.derived[1].zar, price_usd |-> manual.derived[1].usd,
     exchange_rate |-> manual.zarToUsdRate, change_24h_percent |-> manual.change]

ManualPassed(c) ==
    /\ manual.op = "price"
    /\ manual.commodityId = c
    /\ manual.upsertOutcome = "ok"
    /\ manual.historyOutcome = "ok"

TaskPassed(c) == task[c].upsertOutcome = "ok" /\ task[c].historyOutcome = "ok"

EventsPassed(c) ==
    (IF TaskPassed(c) THEN 1 ELSE 0) + (IF ManualPassed(c) THEN 1 ELSE 0)

(* C36: after any interleaving of an updateDailyPrices run overlapping an   *)
(* updateCommodityPrice call, CurrentPrice holds one row per commodity_id,  *)
(* which is the row as it was or the whole row of one of the upserts, and   *)
(* the number of PriceHistory rows of a commodity has grown by exactly the  *)
(* number of update events that passed both writes for it.                  *)
C36_OneRowAndHistoryCount ==
    \A c \in Commodities :
        /\ Cardinality({h \in price_history : h.commodity_id = c}) = EventsPassed(c)
        /\ \/ current_prices[c] = InitialPrices[c]
           \/ task[c].upsertOutcome = "ok" /\ current_prices[c] = TaskRow(c)
           \/ /\ manual.op = "price" /\ manual.commodityId = c
              /\ manual.upsertOutcome = "ok"
              /\ current_prices[c] = ManualRow

(* both updates of one commodity passed both writes and the run's upsert    *)
(* came last: two PriceHistory rows, and CurrentPrice holds the row of the  *)
(* run, not that of the operator                                            *)
C36_Witness ==
    \E c \in Commodities :
        /\ TaskPassed(c)
        /\ ManualPassed(c)
        /\ Cardinality({h \in price_history : h.commodity_id = c}) = 2
        /\ current_prices[c] = TaskRow(c)
        /\ current_prices[c] # ManualRow

(* the change an upsert stores is computed from the price_zar it overwrote, *)
(* or is 0 when the read of the row failed                                  *)
ChangeFromOverwritten ==
    \A c \in Commodities :
        (current_prices'[c] # current_prices[c]) =>
            current_prices'[c].change_24h_percent
               \in {calculateChangePercentage(PreviousPriceZar(current_prices[c]),
                                              current_prices'[c].price_zar),
                    0}

(* C37: the change_24h_percent stored in a CurrentPrice row equals          *)
(* calculateChangePercentage(p, new price_zar), where p is the price_zar    *)
(* the commodity's row held immediately before this upsert overwrote it (0  *)
(* when no row existed or the read failed); also when two updates touching  *)
(* the same commodity overlap.                                              *)
C37_ChangeFromOverwrittenPrice == [][ChangeFromOverwritten]_vars

----------------------------------------------------------------------------
(* Properties of the three logs under every operation of the core *)

IsPrefix(s, t) == Len(s) <= Len(t) /\ SubSeq(t, 1, Len(s)) = s

(* C18: ExchangeRate, PriceHistory and PriceUpdateRun are append-only: no   *)
(* step of getCurrencyRate, getCurrencyRates, updateDailyPrices,            *)
(* updateCommodityPrice or updatePriceRange removes or changes a row that   *)
(* was in one of these tables; the only change is the insert of new rows.   *)
C18_AppendOnly ==
    [][/\ IsPrefix(exchange_rates, exchange_rates')
       /\ price_history \subseteq price_history'
       /\ IsPrefix(price_update_runs, price_update_runs')]_vars

(* a daily run has added a row to each log and the earlier rows are intact  *)
C18_Witness ==
    /\ daily.pc = "returned"
    /\ Len(exchange_rates) >= 2
    /\ exchange_rates[1] \in {EarlierRateRow, FreshEurRow}
    /\ Cardinality(price_history) >= 2
    /\ EarlierHistoryRow \in price_history
    /\ Len(price_update_runs) = 2
    /\ price_update_runs[1] = EarlierRunRow

----------------------------------------------------------------------------
(* Termination of the resolver and of the daily run *)

CallRunning == call.pc \notin {"idle", "done", "thrown"}

DailyRunning == daily.pc \notin {"idle", "returned", "thrown"}

(* C19: when every store call and live-API call completes, a                *)
(* getCurrencyRate call that has started eventually returns, an             *)
(* updateDailyPrices run that has started eventually returns (after its     *)
(* run-record insert) or throws, and a live fetch that timed out leaves the *)
(* resolver at the stale-row tier.                                          *)
C19_Terminates ==
    /\ CallRunning ~> (call.pc \in {"done", "thrown"})
    /\ DailyRunning ~> (daily.pc \in {"returned", "thrown"})
    /\ [](daily.pc = "returned" => daily.runOutcome # "none")
    /\ [](call.apiKind = "timeout" => call.pc = "stale")

(* a daily run whose live fetch gave no rate has taken the rate of the row  *)
(* found by the stale-row tier, has written its run record and has returned *)
C19_Witness ==
    /\ daily.pc = "returned"
    /\ daily.runOutcome = "ok"
    /\ daily.zarToUsdRate = EarlierRateRow.rate
    /\ Len(price_update_runs) = 1

====
